---- MODULE Spec2Model ----
(***************************************************************************)
(* A model of the sozluk dictionary engine: the StarDict index decoder,    *)
(* the index cache, the definition reader, the word matchers and the       *)
(* search over several dictionaries.                                       *)
(*                                                                         *)
(* Text is kept as Rust keeps it: a String / &str is its sequence of UTF-8 *)
(* bytes (0..255); characters are obtained by decoding.  A result that the *)
(* code produces by unwinding (unwrap on Err/None, slice out of range) is  *)
(* the value "panic".                                                      *)
(***************************************************************************)
EXTENDS Integers, Sequences, FiniteSets, Bags, TLC

VARIABLES
    \* ---- index decoder (Dictionary::parse_index) ----
    raw_indices,    \* the bytes of the .idx file handed to parse_index
    iter,           \* number of bytes the slice iterator has yielded so far
    indices,        \* the Vec<Index> built by parse_index so far
    ipc,            \* "loop" | "done" (Some(indices) returned) | "panic"
    iterations,     \* how many times the body of parse_index's loop has run
    src_records,    \* the records the .idx file was written from
    cut,            \* how many trailing bytes of the written file are missing
    \* ---- matchers (WordMatcher::compare) ----
    first,          \* the query word handed to compare
    second,         \* the candidate word handed to compare
    exact_result,   \* what ExactMatcher.compare(first, second) returned
    lev_results,    \* level -> what LevenshteinMatcher{level}.compare returned
    \* ---- index cache (Dictionary::save_cache / load_cache) ----
    cache_file,     \* the file at cache_path: [exists, bytes]
    cache_origin,   \* who wrote cache_file: "none" | "stale" | "dic1" | "damaged"
    dic1_indices,   \* indices of the dictionary that saves
    dic2_indices,   \* indices of the dictionary that loads (same cache_path)
    save_result,    \* "none" | "ok" | "err"
    load_result,    \* "none" | "ok" | "read_err" | "deserialize_err"
    loaded_origin,  \* cache_origin at the time of the last load_cache
    \* ---- search (search_in_dicts) ----
    dicts,          \* the dictionaries, in the caller's iteration order
    comp,           \* the matcher: [algorithm, level]
    search_word,    \* the query word
    timelog_file,   \* TIMELOG_FILE: "absent" | "writable" | "failing" | "poisoned" | "held"
    timelog_events, \* what has been written to the sink
    searched,       \* how many dictionaries the for loop has taken
    indices_to_list,\* the groups pushed so far: [dict, index], both by position
    search_pc,      \* "loop" | "done" | "panic" | "blocked"
    \* ---- definition lookup (Dictionary::read_definition) ----
    dict_file,          \* the file at dict_path: [exists, bytes]
    sametype_sequence,  \* the dictionary's format tag
    def_index,          \* the Index passed to read_definition
    def_result,         \* [tag, word, definition, definition_type]
    \* ---- loading (Dictionary::load_dictionary, parse_ifo_file) ----
    load_path,          \* the path given: [is_dir, listing, dict_path]
    ifo_file,           \* the descriptor at ifo_path: [exists, bytes, lines it was written from]
    idx_file,           \* the index file at idx_path: [exists, bytes, records it was written from, cut]
    write_fails,        \* whether fs::write to cache_path fails
    dictionary,         \* the Dictionary being built: [indices, bookname, sametype_sequence, wordcount]
    dictionary_result,  \* "none" | "ok" | "PathError" | "IOError" | "panic"
    load_trace,         \* what the last load did: [from_cache, index_parsed, save]
    \* ---- loading many (load_dicts_from_paths_and_subpaths) ----
    paths,              \* the given paths: [dir, subdirs], each directory with its files
    paths_done,         \* how many paths the for loop has taken
    loaded_dicts,       \* dicts: the dictionaries loaded so far, [ifo_path, dictionary]
    paths_pc,           \* "loop" | "done" | "panic"
    \* ---- loading again (load_dictionary in a later run) ----
    first_load,  \* what the first load returned: [result, indices, trace]
    reloads,     \* how many times the index file was changed and the load started again
    \* ---- random word (Dictionary::select_random_word) ----
    random_word,  \* what select_random_word returned: [tag, n]
    \* ---- JSON output (indices_to_json) ----
    json_pairs,   \* the groups passed to indices_to_json: [dict, index], both by position
    json_result,  \* what indices_to_json returned: [tag, output]
    \* ---- server set-up (serve_http) ----
    opt_groups,   \* opt.groups in iteration order: for each group the dictionaries its paths load
    groups_done,  \* how many groups the outer for loop has finished
    group_d,      \* group_d: the group's loaded dictionaries not yet removed
    range_end,    \* group_d.len() when the inner for loop began
    d_idx,        \* d: the inner loop's index
    dict_keys,    \* dict_keys: the names pushed so far
    all_dicts,    \* all_dicts: display name -> Dictionary
    groups,       \* groups: group -> its key list
    serve_pc      \* "groups" | "loop" | "serving" | "panic"

idxVars == <<raw_indices, iter, indices, ipc, iterations, src_records, cut>>

matchVars == <<first, second, exact_result, lev_results>>

cacheVars == <<cache_file, cache_origin, dic1_indices, dic2_indices,
               save_result, load_result, loaded_origin>>

searchVars == <<dicts, comp, search_word, timelog_file, timelog_events,
                searched, indices_to_list, search_pc>>

readVars == <<dict_file, sametype_sequence, def_index, def_result>>

loadVars == <<load_path, ifo_file, idx_file, write_fails, dictionary,
              dictionary_result, load_trace>>

pathsVars == <<paths, paths_done, loaded_dicts, paths_pc>>

reloadVars == <<first_load, reloads>>

randVars == <<random_word>>

jsonVars == <<json_pairs, json_result>>

serveVars == <<opt_groups, groups_done, group_d, range_end, d_idx, dict_keys,
               all_dicts, groups, serve_pc>>

vars == <<idxVars, matchVars, cacheVars, searchVars, readVars, loadVars, pathsVars,
         reloadVars,
         randVars,
         jsonVars,
         serveVars>>

\* ------------------------------------------------------------------ bounds
MaxRecords == 2
MaxCut == 10
MaxWordLen == 2
MaxLevel == 4

\* ------------------------------------------------------------------ helpers
Min(S) == CHOOSE x \in S : \A y \in S : x <= y

Max2(a, b) == IF a >= b THEN a ELSE b

Min2(a, b) == IF a <= b THEN a ELSE b

Abs(n) == IF n < 0 THEN 0 - n ELSE n

Max(S) == CHOOSE x \in S : \A y \in S : x >= y

SeqsUpTo(S, n) == UNION {[1..k -> S] : k \in 0..n}

RECURSIVE Concat(_)
Concat(ss) == IF ss = <<>> THEN <<>> ELSE Head(ss) \o Concat(Tail(ss))

\* ------------------------------------------------------------------ UTF-8
IsCont(b) == b >= 128 /\ b <= 191

\* Length of the well-formed UTF-8 sequence starting at s[i], or 0 when the
\* bytes at i do not start one (what core::str::from_utf8 accepts).
Utf8Width(s, i) ==
    LET n == Len(s)
        b == s[i]
        c(k) == i + k <= n /\ IsCont(s[i + k])
    IN  IF b <= 127 THEN 1
        ELSE IF b >= 194 /\ b <= 223 THEN (IF c(1) THEN 2 ELSE 0)
        ELSE IF b = 224 THEN (IF c(1) /\ s[i + 1] >= 160 /\ c(2) THEN 3 ELSE 0)
        ELSE IF b = 237 THEN (IF c(1) /\ s[i + 1] <= 159 /\ c(2) THEN 3 ELSE 0)
        ELSE IF b >= 225 /\ b <= 239 THEN (IF c(1) /\ c(2) THEN 3 ELSE 0)
        ELSE IF b = 240 THEN (IF c(1) /\ s[i + 1] >= 144 /\ c(2) /\ c(3) THEN 4 ELSE 0)
        ELSE IF b = 244 THEN (IF c(1) /\ s[i + 1] <= 143 /\ c(2) /\ c(3) THEN 4 ELSE 0)
        ELSE IF b >= 241 /\ b <= 243 THEN (IF c(1) /\ c(2) /\ c(3) THEN 4 ELSE 0)
        ELSE 0

\* String::from_utf8(buffer).is_ok(): every byte either starts a well-formed
\* sequence or is a continuation byte inside the sequence begun by the nearest
\* non-continuation byte before it.  The String then holds the same bytes.
ValidUtf8(s) ==
    \A i \in 1..Len(s) :
        IF IsCont(s[i])
        THEN \E j \in 1..(i - 1) :
                /\ j >= i - 3
                /\ ~IsCont(s[j])
                /\ \A m \in (j + 1)..(i - 1) : IsCont(s[m])
                /\ Utf8Width(s, j) > i - j
        ELSE Utf8Width(s, i) > 0

\* The code point of the well-formed sequence of width w starting at s[i].
CodePoint(s, i, w) ==
    IF w = 1 THEN s[i]
    ELSE IF w = 2 THEN (s[i] - 192) * 64 + (s[i + 1] - 128)
    ELSE IF w = 3 THEN (s[i] - 224) * 4096 + (s[i + 1] - 128) * 64 + (s[i + 2] - 128)
    ELSE (s[i] - 240) * 262144 + (s[i + 1] - 128) * 4096
         + (s[i + 2] - 128) * 64 + (s[i + 3] - 128)

\* str::chars() of a valid &str: the code points of the sequences begun by its
\* non-continuation bytes, in order.
Chars(s) ==
    LET starts == {i \in 1..Len(s) : ~IsCont(s[i])}
        start(k) == CHOOSE i \in starts : Cardinality({j \in starts : j <= i}) = k
    IN  SubSeq([k \in 1..Cardinality(starts) |->
                    CodePoint(s, start(k), Utf8Width(s, start(k)))],
               1, Cardinality(starts))

\* ------------------------------------------------------------------ index file
\* One record as the .idx file stores it: word bytes, 0x00, offset and size as
\* big-endian u32.
\* A u32 is kept as its two 16-bit halves <<hi, lo>> (value hi * 65536 + lo).
U32BE(n) == <<n[1] \div 256, n[1] % 256, n[2] \div 256, n[2] % 256>>

IndexRecordBytes(r) == r.word \o <<0>> \o U32BE(r.offset) \o U32BE(r.size)

RECURSIVE SerializeIndex(_)
SerializeIndex(rs) ==
    IF rs = <<>> THEN <<>>
    ELSE IndexRecordBytes(Head(rs)) \o SerializeIndex(Tail(rs))

\* Words an index may hold: empty, ASCII, a two-byte character, two characters,
\* and one byte string that is not UTF-8.
BadWord == <<255>>

IdxWords == {<<>>, <<97>>, <<196, 177>>, BadWord}

\* 0 and 0x01020304; 8 and 0xFFFFFFFF.
IdxOffsets == {<<0, 0>>, <<258, 772>>}

IdxSizes == {<<0, 8>>, <<65535, 65535>>}

IdxRecords == [word : IdxWords, offset : IdxOffsets, size : IdxSizes]

\* ------------------------------------------------------------------ parse_u32
\* take(4) on the shared iterator, then read_u32::<BigEndian>: up to four bytes
\* are consumed whether or not four were left.
parse_u32_noconsume(raw, pos) ==
    IF Len(raw) - pos < 4
    THEN [ok |-> FALSE, value |-> <<0, 0>>, pos |-> pos]
    ELSE [ok |-> TRUE,
          value |-> <<raw[pos + 1] * 256 + raw[pos + 2],
                      raw[pos + 3] * 256 + raw[pos + 4]>>,
          pos |-> pos + 4]

parse_u32_le(raw, pos) ==
    IF Len(raw) - pos < 4
    THEN [ok |-> FALSE, value |-> <<0, 0>>, pos |-> Len(raw)]
    ELSE [ok |-> TRUE,
          value |-> <<raw[pos + 4] * 256 + raw[pos + 3],
                      raw[pos + 2] * 256 + raw[pos + 1]>>,
          pos |-> pos + 4]

parse_u32(raw, pos) ==
    IF Len(raw) - pos < 4
    THEN [ok |-> FALSE, value |-> <<0, 0>>, pos |-> Len(raw)]
    ELSE [ok |-> TRUE,
          value |-> <<raw[pos + 1] * 256 + raw[pos + 2],
                      raw[pos + 3] * 256 + raw[pos + 4]>>,
          pos |-> pos + 4]

parse_word_rewind(raw, pos) ==
    LET n == Len(raw)
        zs == {j \in (pos + 1)..n : raw[j] = 0}
    IN  IF pos >= n THEN [tag |-> "none", word |-> <<>>, pos |-> pos]
        ELSE IF zs = {} THEN [tag |-> "panic", word |-> <<>>, pos |-> n]
        ELSE LET z == Min(zs)
                 buffer == SubSeq(raw, pos + 1, z - 1)
             IN  [tag |-> IF ValidUtf8(buffer) THEN "ok" ELSE "err",
                  word |-> buffer, pos |-> IF ValidUtf8(buffer) THEN z ELSE pos]

\* ------------------------------------------------------------------ parse_word
\* tag "none": the iterator was exhausted (Ok(None)); "ok": Ok(Some(word));
\* "err": the bytes before the terminator are not UTF-8 (the terminator is
\* consumed); "panic": a word was begun and the input ended before any 0x00
\* (iter.next().unwrap() on None).
parse_word(raw, pos) ==
    LET n == Len(raw)
        zs == {j \in (pos + 1)..n : raw[j] = 0}
    IN  IF pos >= n THEN [tag |-> "none", word |-> <<>>, pos |-> pos]
        ELSE IF zs = {} THEN [tag |-> "panic", word |-> <<>>, pos |-> n]
        ELSE LET z == Min(zs)
                 buffer == SubSeq(raw, pos + 1, z - 1)
             IN  [tag |-> IF ValidUtf8(buffer) THEN "ok" ELSE "err",
                  word |-> buffer, pos |-> z]

\* ------------------------------------------------------------------ parse_index
\* One iteration of parse_index's loop.  step.pc is where the loop is
\* afterwards, step.pos the iterator's position, step.push the record pushed
\* (a sequence of zero or one record).
parse_index_iteration(raw, pos) ==
    LET w == parse_word(raw, pos)
        o == parse_u32(raw, w.pos)
        s == parse_u32(raw, o.pos)
    IN  IF w.tag = "none" THEN [pc |-> "done", pos |-> w.pos, push |-> <<>>]
        ELSE IF w.tag = "panic" THEN [pc |-> "panic", pos |-> w.pos, push |-> <<>>]
        ELSE IF w.tag = "err" THEN [pc |-> "loop", pos |-> w.pos, push |-> <<>>]
        ELSE IF ~o.ok THEN [pc |-> "loop", pos |-> o.pos, push |-> <<>>]
        ELSE IF ~s.ok THEN [pc |-> "loop", pos |-> s.pos, push |-> <<>>]
        ELSE [pc |-> "loop", pos |-> s.pos,
              push |-> <<[word |-> w.word, offset |-> o.value, size |-> s.value]>>]

IdleIndex ==
    /\ raw_indices = <<>> /\ iter = 0 /\ indices = <<>> /\ ipc = "idle"
    /\ iterations = 0 /\ src_records = <<>> /\ cut = 0

IdleMatch ==
    /\ first = <<>> /\ second = <<>> /\ exact_result = "idle"
    /\ lev_results = <<>>

IdleCache ==
    /\ cache_file = [exists |-> FALSE, bytes |-> <<>>]
    /\ cache_origin = "none"
    /\ dic1_indices = <<>> /\ dic2_indices = <<>>
    /\ save_result = "idle" /\ load_result = "idle" /\ loaded_origin = "none"

IdleSearch ==
    /\ dicts = <<>>
    /\ comp = [algorithm |-> "exact", level |-> 0]
    /\ search_word = <<>>
    /\ timelog_file = "absent"
    /\ timelog_events = <<>>
    /\ searched = 0
    /\ indices_to_list = <<>>
    /\ search_pc = "idle"

NoDefinition(t) ==
    [tag |-> t, word |-> <<>>, definition |-> <<>>, definition_type |-> "None"]

IdleRead ==
    /\ dict_file = [exists |-> FALSE, bytes |-> <<>>]
    /\ sametype_sequence = "None"
    /\ def_index = [word |-> <<>>, offset |-> <<0, 0>>, size |-> <<0, 0>>]
    /\ def_result = NoDefinition("idle")

\* Dictionary::new: no records, "No bookname", no format tag, count 0.
NewDictionary ==
    [indices |-> <<>>,
     bookname |-> <<78, 111, 32, 98, 111, 111, 107, 110, 97, 109, 101>>,
     sametype_sequence |-> "None",
     wordcount |-> 0]

NoTrace == [from_cache |-> FALSE, index_parsed |-> FALSE, save |-> "none"]

IdlePaths ==
    /\ paths = <<>> /\ paths_done = 0 /\ loaded_dicts = <<>> /\ paths_pc = "idle"

NoLoad == [result |-> "none", indices |-> <<>>, trace |-> NoTrace]

IdleReload == first_load = NoLoad /\ reloads = 0

NoWord == [tag |-> "none", n |-> 0]

IdleRandom == random_word = NoWord

NoJson == [tag |-> "none", output |-> <<>>]

IdleJson == json_pairs = <<>> /\ json_result = NoJson

IdleServe ==
    /\ opt_groups = <<>> /\ groups_done = 0
    /\ group_d = <<>> /\ range_end = 0 /\ d_idx = 0
    /\ dict_keys = <<>> /\ all_dicts = <<>> /\ groups = <<>> /\ serve_pc = "idle"

IdleLoad ==
    /\ load_path = [is_dir |-> FALSE, listing |-> "none", dict_path |-> <<>>]
    /\ ifo_file = [exists |-> FALSE, bytes |-> <<>>, lines |-> <<>>]
    /\ idx_file = [exists |-> FALSE, bytes |-> <<>>, records |-> <<>>, cut |-> 0]
    /\ write_fails = FALSE
    /\ dictionary = NewDictionary
    /\ dictionary_result = "idle"
    /\ load_trace = NoTrace

InitIndex ==
    /\ IdleMatch /\ IdleCache /\ IdleSearch /\ IdleRead /\ IdleLoad /\ IdlePaths
    /\ IdleServe
    /\ IdleJson
    /\ IdleRandom
    /\ IdleReload
    /\ \E rs \in SeqsUpTo(IdxRecords, MaxRecords) :
      \E c \in 0..Min2(MaxCut, Len(SerializeIndex(rs))) :
        /\ src_records = rs
        /\ cut = c
        /\ raw_indices = SubSeq(SerializeIndex(rs), 1, Len(SerializeIndex(rs)) - c)
        /\ iter = 0
        /\ indices = <<>>
        /\ ipc = "loop"
        /\ iterations = 0

ParseIndexLoop ==
    /\ ipc = "loop"
    /\ LET step == parse_index_iteration(raw_indices, iter)
       IN  /\ ipc' = step.pc
           /\ iter' = step.pos
           /\ indices' = indices \o step.push
           /\ iterations' = iterations + 1
    /\ UNCHANGED <<raw_indices, src_records, cut>>
    /\ UNCHANGED <<matchVars, cacheVars, searchVars, readVars, loadVars, pathsVars,
                   reloadVars, randVars, jsonVars, serveVars>>

NextIndex == ParseIndexLoop

SpecIndex == InitIndex /\ [][NextIndex]_vars

WellFormed(rs) == \A i \in 1..Len(rs) : ValidUtf8(rs[i].word)

\* C1: parse_index applied to the concatenation of well-formed index records
\* returns exactly those (word, offset, size) triples, in file order, with
\* duplicate words kept as separate records.
C1_ParseRecoversRecords ==
    (ipc # "loop" /\ cut = 0 /\ WellFormed(src_records))
        => (ipc = "done" /\ indices = src_records)

C1_Witness ==
    /\ ipc = "done" /\ cut = 0 /\ WellFormed(src_records)
    /\ Len(src_records) = 2
    /\ src_records[1].word = src_records[2].word
    /\ src_records[1].offset # src_records[2].offset
    /\ indices = src_records

Front(s) == SubSeq(s, 1, Len(s) - 1)

\* The file ends inside the last record's offset/size pair: its word and 0x00
\* are there, fewer than 8 bytes follow.
TruncatedTail ==
    /\ Len(src_records) >= 1
    /\ cut >= 1 /\ cut <= 8
    /\ WellFormed(src_records)

\* C9: when the last record lacks (part of) its offset/size pair, parse_index
\* ends without panicking, within Len(input) + 1 iterations, and returns
\* exactly the well-formed records before it.
C9_TruncatedTailStopsCleanly ==
    TruncatedTail =>
        /\ ipc # "panic"
        /\ iterations <= Len(raw_indices) + 1
        /\ ipc = "done" => indices = Front(src_records)

C9_Witness ==
    /\ TruncatedTail
    /\ Len(src_records) = 2
    /\ cut = 3
    /\ ipc = "done"
    /\ indices = <<src_records[1]>>

RemoveAt(s, i) == SubSeq(s, 1, i - 1) \o SubSeq(s, i + 1, Len(s))

BadAt(i) ==
    /\ i \in 1..Len(src_records)
    /\ ~ValidUtf8(src_records[i].word)
    /\ \A j \in 1..Len(src_records) : j # i => ValidUtf8(src_records[j].word)

\* C10: in a stream of well-formed records of which exactly one has a word
\* that is not UTF-8, parse_index skips that record and returns exactly the
\* others, each with its own word, offset and size, in file order.
C10_OneBadRecordSkipped ==
    \A i \in 1..Len(src_records) :
        (cut = 0 /\ BadAt(i) /\ ipc # "loop")
            => (ipc = "done" /\ indices = RemoveAt(src_records, i))

\* ------------------------------------------------------------------ matcher.rs
\* strsim::generic_levenshtein over chars: one row of the distance table per
\* character of a.  A row is a sequence of Len(b) + 1 entries; entry j + 1 is
\* the distance to the first j characters of b.  The code's left-to-right
\* update
\*   result = min(result + 1, min(distance_a, distance_b + 1))
\* is unrolled: an entry is the least, over the entries k at or before it, of
\* entry k as reached from the previous row plus the insertions after it.
LevRow(prev, ch, b, i) ==
    LET n == Len(b)
        fromPrev == SubSeq([k \in 1..(n + 1) |->
                        IF k = 1 THEN i
                        ELSE Min2(prev[k - 1] + (IF ch = b[k - 1] THEN 0 ELSE 1),
                                  prev[k] + 1)], 1, n + 1)
    IN  SubSeq([j \in 1..(n + 1) |->
                    Min({fromPrev[k] + (j - k) : k \in 1..j})], 1, n + 1)

RECURSIVE LevRows(_, _, _, _)
LevRows(a, b, i, prev) ==
    \* (The test on row only makes the row a value before the next one is
    \* computed from it; a row is never empty.)
    IF i > Len(a) THEN prev
    ELSE LET row == LevRow(prev, a[i], b, i)
         IN  IF row = <<>> THEN row ELSE LevRows(a, b, i + 1, row)

levenshtein(a, b) ==
    LET ca == Chars(a)
        cb == Chars(b)
    IN  LevRows(ca, cb, 1, SubSeq([j \in 1..(Len(cb) + 1) |-> j - 1], 1, Len(cb) + 1))[Len(cb) + 1]

\* strsim::normalized_levenshtein as the fraction <<numerator, denominator>>:
\* 1.0 for two empty strings, otherwise 1 - distance / max(char counts).
normalized_levenshtein(a, b) ==
    IF a = <<>> /\ b = <<>> THEN <<1, 1>>
    ELSE LET m == Max2(Len(Chars(a)), Len(Chars(b)))
         IN  <<m - levenshtein(a, b), m>>

\* i8::MAX: the character counts and the level go through i8::try_from(..).unwrap().
I8Max == 127

Res(bool) == IF bool THEN "true" ELSE "false"

ExactMatcher_compare_prefix(a, b) ==
    Res(Len(b) <= Len(a) /\ SubSeq(a, 1, Len(b)) = b)

\* ExactMatcher::compare: first == second on &str, i.e. on the bytes.
ExactMatcher_compare(a, b) == Res(a = b)

\* The threshold test  sim > 0.89 - 0.05 * level  on exact fractions:
\* num / den > (89 - 5 * level) / 100.
AboveThreshold(sim, level) == sim[1] * 100 > (89 - 5 * level) * sim[2]

LevenshteinMatcher_compare_nowindow(level, a, b) ==
    IF Len(Chars(a)) > I8Max \/ Len(Chars(b)) > I8Max \/ level > I8Max THEN "panic"
    ELSE Res(AboveThreshold(normalized_levenshtein(a, b), level))

LevenshteinMatcher_compare_risingthreshold(level, a, b) ==
    LET delta == Len(Chars(a)) - Len(Chars(b))
    IN  IF Len(Chars(a)) > I8Max \/ Len(Chars(b)) > I8Max \/ level > I8Max THEN "panic"
        ELSE IF delta > level \/ delta < level * (-1) THEN "false"
        ELSE Res(AboveThreshold(normalized_levenshtein(a, b), 0 - level))

\* LevenshteinMatcher::compare.
LevenshteinMatcher_compare(level, a, b) ==
    LET delta == Len(Chars(a)) - Len(Chars(b))
    IN  IF Len(Chars(a)) > I8Max \/ Len(Chars(b)) > I8Max \/ level > I8Max THEN "panic"
        ELSE IF delta > level \/ delta < level * (-1) THEN "false"
        ELSE Res(AboveThreshold(normalized_levenshtein(a, b), level))

\* The words of the matcher's tests and of its contract, as UTF-8 bytes.
armut == <<97, 114, 109, 117, 116>>

erm == <<101, 114, 109>>

Armut_ == <<65, 114, 109, 117, 116>>

armutar == <<97, 114, 109, 117, 116, 97, 114>>

LongWord == <<99, 111, 109, 112, 108, 101, 116, 101, 108, 121, 45, 100, 105, 102, 102, 101, 114, 101, 110, 116, 45, 108, 111, 110, 103, 45, 119, 111, 114, 100>>

A9 == [i \in 1..9 |-> 97]

A10 == [i \in 1..10 |-> 97]

NamedWords == {armut, erm, Armut_, armutar, LongWord, A9, A10}

\* "a" and the two-byte "i without dot" (U+0131).
MatchChars == {<<97>>, <<196, 177>>}

ShortWords == {Concat(cs) : cs \in SeqsUpTo(MatchChars, MaxWordLen)}

MatchWords == NamedWords \cup ShortWords

Levels == 0..MaxLevel

InitMatch ==
    /\ IdleIndex /\ IdleCache /\ IdleSearch /\ IdleRead /\ IdleLoad /\ IdlePaths
    /\ IdleServe
    /\ IdleJson
    /\ IdleRandom
    /\ IdleReload
    /\ first \in MatchWords
    /\ second \in MatchWords
    /\ exact_result = "none"
    /\ lev_results = [l \in Levels |-> "none"]

ExactCompare ==
    /\ exact_result = "none"
    /\ exact_result' = ExactMatcher_compare(first, second)
    /\ UNCHANGED <<first, second, lev_results>>
    /\ UNCHANGED <<idxVars, cacheVars, searchVars, readVars, loadVars, pathsVars,
                   reloadVars, randVars, jsonVars, serveVars>>

\* The caller holds the word pair fixed and raises the level: the next
\* comparison is made by LevenshteinMatcher { level } for the least level not
\* yet tried.
LevenshteinCompare ==
    \E level \in Levels :
        /\ lev_results[level] = "none"
        /\ \A l \in Levels : l < level => lev_results[l] # "none"
        /\ lev_results' = [lev_results EXCEPT
                             ![level] = LevenshteinMatcher_compare(level, first, second)]
        /\ UNCHANGED <<first, second, exact_result>>
        /\ UNCHANGED <<idxVars, cacheVars, searchVars, readVars, loadVars, pathsVars,
                       reloadVars, randVars, jsonVars, serveVars>>

NextMatch == ExactCompare \/ LevenshteinCompare

SpecMatch == InitMatch /\ [][NextMatch]_vars

CharCount(w) == Len(Chars(w))

C6_NearMissPairsAccepted ==
    /\ (first = armut /\ second = erm /\ lev_results[2] # "none")
            => lev_results[2] = "true"
    /\ (first = armut /\ second = erm /\ lev_results[3] # "none")
            => lev_results[3] = "true"
    /\ (first = Armut_ /\ second = armutar /\ lev_results[3] # "none")
            => lev_results[3] = "true"

\* C7: for L1 <= L2, a pair that LevenshteinMatcher(L1) accepts is accepted
\* by LevenshteinMatcher(L2).
C7_MonotonicRecall ==
    \A l1 \in Levels : \A l2 \in Levels :
        (l1 <= l2 /\ lev_results[l1] = "true" /\ lev_results[l2] # "none")
            => lev_results[l2] = "true"

C7_Witness ==
    /\ first = Armut_ /\ second = armut
    /\ lev_results[1] = "false"
    /\ lev_results[2] = "true"
    /\ lev_results[3] = "true"

\* C8: ExactMatcher.compare(a, b) is true iff a and b are the same character
\* sequence; a proper prefix does not match.
C8_ExactIsEquality ==
    exact_result # "none" =>
        /\ exact_result = "true" <=> Chars(first) = Chars(second)
        /\ exact_result \in {"true", "false"}

C8_Witness ==
    /\ first = A10 /\ second = A9
    /\ exact_result = "false"

\* ---- compare at the edge of i8
\* Words of i8::MAX and of i8::MAX + 1 characters.
A127 == [i \in 1..I8Max |-> 97]

A128 == [i \in 1..(I8Max + 1) |-> 97]

WideQueries == {armut, A127, A128}

WideCandidates == {<<>>, erm, A128}

\* build_matcher takes any usize as the level.
WideLevels == {0, 3, I8Max, I8Max + 1}

InitMatchWide ==
    /\ IdleIndex /\ IdleCache /\ IdleSearch /\ IdleRead /\ IdleLoad /\ IdlePaths
    /\ IdleServe
    /\ IdleJson
    /\ IdleRandom
    /\ IdleReload
    /\ first \in WideQueries
    /\ second \in WideCandidates
    /\ exact_result = "none"
    /\ lev_results = [l \in WideLevels |-> "none"]

\* LevenshteinMatcher { level }.compare(first, second) for a level not yet
\* tried.
LevenshteinCompareWide ==
    \E level \in WideLevels :
        /\ lev_results[level] = "none"
        /\ lev_results' = [lev_results EXCEPT
                             ![level] = LevenshteinMatcher_compare(level, first, second)]
        /\ UNCHANGED <<first, second, exact_result>>
        /\ UNCHANGED <<idxVars, cacheVars, searchVars, readVars, loadVars, pathsVars,
                       reloadVars, randVars, jsonVars, serveVars>>

NextMatchWide == LevenshteinCompareWide

SpecMatchWide == InitMatchWide /\ [][NextMatchWide]_vars

\* C24: LevenshteinMatcher.compare returns a boolean, without panicking, for
\* every query, candidate and level, words of 128 characters and the level
\* 128 included.
C24_CompareIsTotal ==
    \A l \in DOMAIN lev_results : lev_results[l] \in {"none", "true", "false"}

\* ------------------------------------------------------------------ index cache
\* bincode (fixed-width little-endian integers): a Vec is its length as u64
\* followed by its elements, a string its byte length as u64 followed by its
\* bytes, an Index its word, offset and size in field order.
U32LE(n) == <<n[2] % 256, n[2] \div 256, n[1] % 256, n[1] \div 256>>

U64LE(n) == <<n % 256, (n \div 256) % 256, (n \div 65536) % 256, 0, 0, 0, 0, 0>>

IndexBincode(r) ==
    U64LE(Len(r.word)) \o r.word \o U32LE(r.offset) \o U32LE(r.size)

RECURSIVE IndicesBincode(_)
IndicesBincode(rs) ==
    IF rs = <<>> THEN <<>> ELSE IndexBincode(Head(rs)) \o IndicesBincode(Tail(rs))

\* serialize(&self.indices)
bincode_serialize(rs) == U64LE(Len(rs)) \o IndicesBincode(rs)

\* A u64 read at pos: ok is FALSE when fewer than 8 bytes are left; huge when
\* the value is 2^24 or more (more than any file of the model holds).
read_u64(bytes, pos) ==
    IF Len(bytes) - pos < 8 THEN [ok |-> FALSE, huge |-> FALSE, value |-> 0, pos |-> pos]
    ELSE [ok |-> TRUE,
          huge |-> \E k \in 4..8 : bytes[pos + k] # 0,
          value |-> bytes[pos + 1] + bytes[pos + 2] * 256 + bytes[pos + 3] * 65536,
          pos |-> pos + 8]

read_u32_be(bytes, pos) ==
    IF Len(bytes) - pos < 4 THEN [ok |-> FALSE, value |-> <<0, 0>>, pos |-> pos]
    ELSE [ok |-> TRUE,
          value |-> <<bytes[pos + 1] * 256 + bytes[pos + 2],
                      bytes[pos + 3] * 256 + bytes[pos + 4]>>,
          pos |-> pos + 4]

read_u32(bytes, pos) ==
    IF Len(bytes) - pos < 4 THEN [ok |-> FALSE, value |-> <<0, 0>>, pos |-> pos]
    ELSE [ok |-> TRUE,
          value |-> <<bytes[pos + 4] * 256 + bytes[pos + 3],
                      bytes[pos + 2] * 256 + bytes[pos + 1]>>,
          pos |-> pos + 4]

\* One Index read at pos: the word's length and bytes (which must be UTF-8),
\* then offset and size.
read_index(bytes, pos) ==
    LET l == read_u64(bytes, pos)
        wend == l.pos + l.value
        word == SubSeq(bytes, l.pos + 1, wend)
        o == read_u32(bytes, wend)
        z == read_u32(bytes, o.pos)
        bad == [ok |-> FALSE, value |-> <<>>, pos |-> pos]
    IN  IF ~l.ok \/ l.huge THEN bad
        ELSE IF wend > Len(bytes) THEN bad
        ELSE IF ~ValidUtf8(word) THEN bad
        ELSE IF ~o.ok \/ ~z.ok THEN bad
        ELSE [ok |-> TRUE,
              value |-> [word |-> word, offset |-> o.value, size |-> z.value],
              pos |-> z.pos]

RECURSIVE read_indices(_, _, _, _)
read_indices(bytes, pos, n, acc) ==
    IF n = 0 THEN [ok |-> TRUE, value |-> acc]
    ELSE LET r == read_index(bytes, pos)
         IN  IF ~r.ok THEN [ok |-> FALSE, value |-> <<>>]
             ELSE read_indices(bytes, r.pos, n - 1, Append(acc, r.value))

\* deserialize(&idx) as Vec<Index>; bytes after the last element are ignored.
bincode_deserialize(bytes) ==
    LET n == read_u64(bytes, 0)
    IN  IF ~n.ok \/ n.huge THEN [ok |-> FALSE, value |-> <<>>]
        ELSE read_indices(bytes, n.pos, n.value, <<>>)

\* The records the cached dictionaries hold, and a blob left at cache_path by
\* an earlier run.
CacheWords == {<<>>, <<97>>, <<196, 177>>}

CacheRecords == [word : CacheWords, offset : {<<0, 246>>, <<258, 772>>}, size : {<<0, 123>>}]

StaleRecords == <<[word |-> <<97, 32, 119>>, offset |-> <<0, 492>>, size |-> <<0, 369>>]>>

\* The records a dictionary may already hold when load_cache is called on it.
PriorRecords == <<[word |-> <<119>>, offset |-> <<0, 7>>, size |-> <<0, 5>>]>>

InitCache ==
    /\ IdleIndex /\ IdleMatch /\ IdleSearch /\ IdleRead /\ IdleLoad /\ IdlePaths
    /\ IdleServe
    /\ IdleJson
    /\ IdleRandom
    /\ IdleReload
    /\ dic1_indices \in SeqsUpTo(CacheRecords, MaxRecords)
    /\ dic2_indices \in {<<>>, PriorRecords}
    /\ \/ cache_file = [exists |-> FALSE, bytes |-> <<>>] /\ cache_origin = "none"
       \/ /\ cache_file = [exists |-> TRUE, bytes |-> bincode_serialize(StaleRecords)]
          /\ cache_origin = "stale"
    /\ save_result = "none"
    /\ load_result = "none"
    /\ loaded_origin = "none"

\* save_cache on the first dictionary; fs::write may fail (the file is then
\* left as it was).
SaveCache ==
    /\ save_result = "none"
    /\ \/ /\ cache_file' = [exists |-> TRUE, bytes |-> bincode_serialize(dic1_indices)]
          /\ cache_origin' = "dic1"
          /\ save_result' = "ok"
       \/ /\ save_result' = "err"
          /\ UNCHANGED <<cache_file, cache_origin>>
    /\ UNCHANGED <<dic1_indices, dic2_indices, load_result, loaded_origin>>
    /\ UNCHANGED <<idxVars, matchVars, searchVars, readVars, loadVars, pathsVars,
                   reloadVars, randVars, jsonVars, serveVars>>

\* Something else shortens the file at cache_path.
TruncateCache ==
    /\ cache_file.exists
    /\ cache_origin # "damaged"
    /\ \E k \in 1..Min2(MaxCut, Len(cache_file.bytes)) :
          cache_file' = [exists |-> TRUE,
                         bytes |-> SubSeq(cache_file.bytes, 1, Len(cache_file.bytes) - k)]
    /\ cache_origin' = "damaged"
    /\ UNCHANGED <<dic1_indices, dic2_indices, save_result, load_result, loaded_origin>>
    /\ UNCHANGED <<idxVars, matchVars, searchVars, readVars, loadVars, pathsVars,
                   reloadVars, randVars, jsonVars, serveVars>>

load_cache_clobber(file, old) ==
    LET d == bincode_deserialize(file.bytes)
    IN  IF ~file.exists THEN [result |-> "read_err", indices |-> old]
        ELSE IF ~d.ok THEN [result |-> "deserialize_err", indices |-> d.value]
        ELSE [result |-> "ok", indices |-> d.value]

load_cache_swapped(file, old) ==
    LET d == bincode_deserialize(file.bytes)
    IN  IF ~file.exists THEN [result |-> "read_err", indices |-> old]
        ELSE IF ~d.ok THEN [result |-> "deserialize_err", indices |-> old]
        ELSE [result |-> "ok",
              indices |-> [i \in 1..Len(d.value) |->
                              [d.value[i] EXCEPT !.offset = d.value[i].size,
                                                 !.size = d.value[i].offset]]]

\* load_cache: read the file, deserialize, and only then replace indices.
load_cache(file, old) ==
    LET d == bincode_deserialize(file.bytes)
    IN  IF ~file.exists THEN [result |-> "read_err", indices |-> old]
        ELSE IF ~d.ok THEN [result |-> "deserialize_err", indices |-> old]
        ELSE [result |-> "ok", indices |-> d.value]

\* load_cache on the second dictionary; fs::read may also fail on a file that
\* exists.
LoadCache ==
    /\ load_result = "none"
    /\ \/ LET r == load_cache(cache_file, dic2_indices)
          IN  /\ load_result' = r.result
              /\ dic2_indices' = r.indices
       \/ /\ cache_file.exists
          /\ load_result' = "read_err"
          /\ UNCHANGED dic2_indices
    /\ loaded_origin' = cache_origin
    /\ UNCHANGED <<cache_file, cache_origin, dic1_indices, save_result>>
    /\ UNCHANGED <<idxVars, matchVars, searchVars, readVars, loadVars, pathsVars,
                   reloadVars, randVars, jsonVars, serveVars>>

NextCache == SaveCache \/ TruncateCache \/ LoadCache

SpecCache == InitCache /\ [][NextCache]_vars

\* C2: save_cache on a dictionary whose records are R, then load_cache on
\* another dictionary with the same cache path, leaves that dictionary's
\* records equal to R (the blob save wrote always deserializes).
C2_CacheRoundTrip ==
    (loaded_origin = "dic1" /\ load_result # "read_err")
        => (load_result = "ok" /\ dic2_indices = dic1_indices)

C2_Witness ==
    /\ loaded_origin = "dic1" /\ load_result = "ok"
    /\ Len(dic1_indices) = 2
    /\ dic1_indices[1] # dic1_indices[2]
    /\ dic2_indices = dic1_indices

C2_WitnessEmpty ==
    /\ loaded_origin = "dic1" /\ load_result = "ok"
    /\ dic1_indices = <<>>
    /\ dic2_indices = <<>>

\* C21: a load_cache that returns Err (the file is absent, cannot be read or
\* cannot be deserialized) leaves the dictionary's records, and the cache
\* file, exactly as they were before the call.
C21_LoadCacheFailsAtomically ==
    [][(load_result = "none" /\ load_result' # "none")
          => /\ (~cache_file.exists \/ ~bincode_deserialize(cache_file.bytes).ok)
                    => load_result' \in {"read_err", "deserialize_err"}
             /\ load_result' \in {"read_err", "deserialize_err"}
                    => (dic2_indices' = dic2_indices /\ cache_file' = cache_file)]_vars

\* A damaged cache was loaded into a dictionary that held records: the load
\* failed and the records are still there.
C21_Witness ==
    /\ load_result = "deserialize_err"
    /\ loaded_origin = "damaged"
    /\ dic2_indices = PriorRecords

\* ----------------------------------------------------------------------- search
MaxDicts == 2

\* WordMatcher::compare through the trait object.
WordMatcher_compare(m, a, b) ==
    IF m.algorithm = "levenshtein" THEN LevenshteinMatcher_compare(m.level, a, b)
    ELSE ExactMatcher_compare(a, b)

\* WordMatcher::name.
WordMatcher_name(m) ==
    IF m.algorithm = "levenshtein" THEN <<"Levenshtein matcher ", m.level>>
    ELSE <<"Exact Matcher">>

\* comparator(&word, &x.word) for every x of dic.indices, by position.
Verdicts(dic, m, w) ==
    SubSeq([i \in 1..Len(dic.indices) |-> WordMatcher_compare(m, w, dic.indices[i].word)],
           1, Len(dic.indices))

Positions(n) == SubSeq([i \in 1..n |-> i], 1, n)

fuzzy_search_indices_droplast(dic, m, w) ==
    LET v == Verdicts(dic, m, w)
        results == SelectSeq(Positions(Len(v)), LAMBDA i : v[i] = "true" /\ i < Len(v))
    IN  IF \E i \in 1..Len(v) : v[i] = "panic" THEN [tag |-> "panic", index |-> <<>>]
        ELSE IF results = <<>> THEN [tag |-> "none", index |-> <<>>]
        ELSE [tag |-> "some", index |-> results]

\* Dictionary::fuzzy_search_indices: the records the comparator accepts, as
\* references (positions) in index order (an indexed parallel collect keeps
\* the order); None when there is none.  A panic in the comparator unwinds
\* through the parallel iterator.
fuzzy_search_indices(dic, m, w) ==
    LET v == Verdicts(dic, m, w)
        results == SelectSeq(Positions(Len(v)), LAMBDA i : v[i] = "true")
    IN  IF \E i \in 1..Len(v) : v[i] = "panic" THEN [tag |-> "panic", index |-> <<>>]
        ELSE IF results = <<>> THEN [tag |-> "none", index |-> <<>>]
        ELSE [tag |-> "some", index |-> results]

TimeLog_write_prepend(sink, events, event) ==
    CASE sink = "absent"   -> [pc |-> "loop", sink |-> sink, events |-> events]
      [] sink = "writable" -> [pc |-> "loop", sink |-> sink, events |-> <<event>> \o events]
      [] sink = "failing"  -> [pc |-> "panic", sink |-> "poisoned", events |-> events]
      [] sink = "poisoned" -> [pc |-> "panic", sink |-> sink, events |-> events]
      [] sink = "held"     -> [pc |-> "blocked", sink |-> sink, events |-> events]

\* TimeLog::write on the sink: lock().unwrap() panics on a poisoned lock and
\* waits on a held one; with no file inside nothing is built or written; a
\* failed write! panics with the guard held, which poisons the lock.
TimeLog_write(sink, events, event) ==
    CASE sink = "absent"   -> [pc |-> "loop", sink |-> sink, events |-> events]
      [] sink = "writable" -> [pc |-> "loop", sink |-> sink, events |-> Append(events, event)]
      [] sink = "failing"  -> [pc |-> "panic", sink |-> "poisoned", events |-> events]
      [] sink = "poisoned" -> [pc |-> "panic", sink |-> sink, events |-> events]
      [] sink = "held"     -> [pc |-> "blocked", sink |-> sink, events |-> events]

Rec(w, o, z) == [word |-> w, offset |-> <<0, o>>, size |-> <<0, z>>]

\* The dictionaries a collection is drawn from: one without records, one that
\* holds the same record twice, and two that share a word.
Shelf ==
    { [bookname |-> "empty", indices |-> <<>>],
      [bookname |-> "tens",  indices |-> <<Rec(A10, 0, 5), Rec(A9, 5, 5), Rec(A10, 0, 5)>>],
      [bookname |-> "fruit", indices |-> <<Rec(armut, 0, 7), Rec(A9, 7, 3)>>],
      [bookname |-> "pear",  indices |-> <<Rec(armut, 0, 4)>>] }

SearchWords == {A10, armut, erm}

SearchMatchers ==
    { [algorithm |-> "exact", level |-> 0], [algorithm |-> "levenshtein", level |-> 1] }

SinkStates == {"absent", "writable", "failing", "poisoned", "held"}

InitSearch ==
    /\ IdleIndex /\ IdleMatch /\ IdleCache /\ IdleRead /\ IdleLoad /\ IdlePaths
    /\ IdleServe
    /\ IdleJson
    /\ IdleRandom
    /\ IdleReload
    /\ dicts \in SeqsUpTo(Shelf, MaxDicts)
    /\ comp \in SearchMatchers
    /\ search_word \in SearchWords
    /\ timelog_file \in SinkStates
    /\ timelog_events = <<>>
    /\ searched = 0
    /\ indices_to_list = <<>>
    /\ search_pc = "loop"

\* One iteration of `for dic in dicts`.
SearchDict ==
    /\ search_pc = "loop"
    /\ searched < Len(dicts)
    /\ LET dic == dicts[searched + 1]
           found == fuzzy_search_indices(dic, comp, search_word)
           log == TimeLog_write(timelog_file, timelog_events,
                                [dictionary |-> dic.bookname, word |-> search_word,
                                 matcher |-> WordMatcher_name(comp)])
       IN  IF found.tag = "panic"
           THEN /\ search_pc' = "panic"
                /\ UNCHANGED <<timelog_file, timelog_events, indices_to_list>>
           ELSE /\ search_pc' = log.pc
                /\ timelog_file' = log.sink
                /\ timelog_events' = log.events
                /\ indices_to_list' =
                      IF log.pc = "loop" /\ found.tag = "some"
                      THEN Append(indices_to_list,
                                  [dict |-> searched + 1, index |-> found.index])
                      ELSE indices_to_list
    /\ searched' = searched + 1
    /\ UNCHANGED <<dicts, comp, search_word>>
    /\ UNCHANGED <<idxVars, matchVars, cacheVars, readVars, loadVars, pathsVars,
                   reloadVars, randVars, jsonVars, serveVars>>

\* The iterator is exhausted: indices_to_list is returned.
SearchReturn ==
    /\ search_pc = "loop"
    /\ searched = Len(dicts)
    /\ search_pc' = "done"
    /\ UNCHANGED <<dicts, comp, search_word, timelog_file, timelog_events,
                   searched, indices_to_list>>
    /\ UNCHANGED <<idxVars, matchVars, cacheVars, readVars, loadVars, pathsVars,
                   reloadVars, randVars, jsonVars, serveVars>>

NextSearch == SearchDict \/ SearchReturn

SpecSearch == InitSearch /\ [][NextSearch]_vars

\* The positions of the records of dic whose word the matcher accepts.
Accepted(dic) ==
    {i \in 1..Len(dic.indices) :
        WordMatcher_compare(comp, search_word, dic.indices[i].word) = "true"}

IsPermutationOf(seq, S) ==
    /\ Len(seq) = Cardinality(S)
    /\ {seq[i] : i \in 1..Len(seq)} = S

\* C3: what search_in_dicts returns has one group per dictionary with at
\* least one accepted record, in the dictionaries' iteration order, never an
\* empty group, and each group's record list is a permutation of exactly that
\* dictionary's accepted records (records are counted by position, so a
\* record stored twice counts twice).
C3_GroupsAreAcceptedRecords ==
    search_pc = "done" =>
        LET hits == SelectSeq(Positions(Len(dicts)), LAMBDA d : Accepted(dicts[d]) # {})
        IN  /\ Len(indices_to_list) = Len(hits)
            /\ \A g \in 1..Len(indices_to_list) :
                  /\ indices_to_list[g].dict = hits[g]
                  /\ indices_to_list[g].index # <<>>
                  /\ IsPermutationOf(indices_to_list[g].index, Accepted(dicts[hits[g]]))

\* A dictionary without an accepted record before one that holds the accepted
\* record twice (and a third record that is not accepted).
C3_Witness ==
    /\ search_pc = "done"
    /\ Len(dicts) = 2
    /\ Accepted(dicts[1]) = {}
    /\ dicts[1].indices # <<>>
    /\ indices_to_list = <<[dict |-> 2, index |-> <<1, 3>>]>>

\* What search_in_dicts returns when there is no sink: a group for every
\* dictionary with an accepted record.
GroupsWithoutSink ==
    LET hits == SelectSeq(Positions(Len(dicts)), LAMBDA d : Accepted(dicts[d]) # {})
    IN  SubSeq([g \in 1..Len(hits) |->
                   [dict |-> hits[g],
                    index |-> SelectSeq(Positions(Len(dicts[hits[g]].indices)),
                                        LAMBDA i : i \in Accepted(dicts[hits[g]]))]],
               1, Len(hits))

\* C17: timing-event reporting cannot fail or block a search: whatever the
\* state of the sink, search_in_dicts does not panic or wait, and returns the
\* groups it returns with no sink.
C17_SinkNeverAffectsSearch ==
    /\ search_pc \in {"loop", "done"}
    /\ search_pc = "done" => indices_to_list = GroupsWithoutSink

\* The timing event of the d-th dictionary: its name, the query word and the
\* matcher's name.
EventOf(d) ==
    [dictionary |-> dicts[d].bookname, word |-> search_word, matcher |-> WordMatcher_name(comp)]

\* The events of the dictionaries searched so far, in iteration order.
EventsSoFar == SubSeq([d \in 1..searched |-> EventOf(d)], 1, searched)

\* C23: while search_in_dicts runs and when it returns, with a sink
\* configured the sink holds exactly one event per dictionary searched so
\* far (so each is emitted before the next dictionary is searched), with or
\* without matches, in iteration order, each carrying the dictionary's name,
\* the query word and the matcher's name; with no sink nothing is emitted.
C23_OneEventPerSearchedDictionary ==
    search_pc \in {"loop", "done"} =>
        /\ timelog_file = "absent" => timelog_events = <<>>
        /\ timelog_file # "absent" => timelog_events = EventsSoFar

\* Two dictionaries of different names were searched with a sink configured,
\* the first without a match: two events, one group.
C23_Witness ==
    /\ search_pc = "done" /\ timelog_file = "writable"
    /\ Len(dicts) = 2 /\ dicts[1].bookname = "empty" /\ dicts[2].bookname = "fruit"
    /\ Len(timelog_events) = 2 /\ timelog_events[1].dictionary = "empty"
    /\ Len(indices_to_list) = 1

\* The same search with no sink: a group and no event.
C23_WitnessNoSink ==
    /\ search_pc = "done" /\ timelog_file = "absent"
    /\ Len(dicts) = 2 /\ Len(indices_to_list) = 1
    /\ timelog_events = <<>>

\* ------------------------------------------------------------ definition lookup
MaxFileLen == 3

SameTypeSequence ==
    {"Meaning", "Locale", "Xdfx", "MediaWiki", "HTML", "WordNet", "Resource",
     "Picture", "None"}

\* Definition::match_sametype_sequence on the lossy decoding of one byte.
match_sametype_sequence(b) ==
    CASE b = 109 -> "Meaning"
      [] b = 104 -> "HTML"
      [] b = 108 -> "Locale"
      [] b = 119 -> "MediaWiki"
      [] b = 112 -> "Picture"
      [] b = 110 -> "WordNet"
      [] b = 114 -> "Resource"
      [] b = 120 -> "Xdfx"
      [] OTHER   -> "Meaning"

\* char::is_whitespace: the White_Space code points.
IsWhiteSpace(cp) ==
    \/ cp \in 9..13
    \/ cp \in {32, 133, 160, 5760, 8232, 8233, 8239, 8287, 12288}
    \/ cp \in 8192..8202

\* str::trim of a valid &str.
str_trim(s) ==
    LET keep == {i \in 1..Len(s) :
                    /\ ~IsCont(s[i])
                    /\ ~IsWhiteSpace(CodePoint(s, i, Utf8Width(s, i)))}
    IN  IF keep = {} THEN <<>>
        ELSE SubSeq(s, Min(keep), Max(keep) + Utf8Width(s, Max(keep)) - 1)

new_from_utf8_keepcode(w, buffer, word_type) ==
    LET ty == IF word_type = "None" THEN match_sametype_sequence(buffer[1])
              ELSE word_type
    IN  IF word_type = "None" /\ buffer = <<>> THEN NoDefinition("panic")
        ELSE IF ~ValidUtf8(buffer) THEN NoDefinition("panic")
        ELSE [tag |-> "ok",
              word |-> w,
              definition |-> IF ty = "HTML" THEN str_trim(buffer) ELSE buffer,
              definition_type |-> ty]

\* Definition::new_from_utf8: with no dictionary-wide tag the first byte of
\* the buffer is the type code (split_at(1) panics on an empty buffer);
\* String::from_utf8(..).unwrap() panics on bytes that are not UTF-8; HTML
\* text is trimmed.
new_from_utf8(w, buffer, word_type) ==
    LET ty == IF word_type = "None" THEN match_sametype_sequence(buffer[1])
              ELSE word_type
        buf == IF word_type = "None" THEN Tail(buffer) ELSE buffer
    IN  IF word_type = "None" /\ buffer = <<>> THEN NoDefinition("panic")
        ELSE IF ~ValidUtf8(buf) THEN NoDefinition("panic")
        ELSE [tag |-> "ok",
              word |-> w,
              definition |-> IF ty = "HTML" THEN str_trim(buf) ELSE buf,
              definition_type |-> ty]

\* The value of a u32 held as two 16-bit halves.
U32Value(n) == n[1] * 65536 + n[2]

read_definition_noseek(file, index, sts) ==
    LET size == U32Value(index.size)
    IN  IF ~file.exists THEN NoDefinition("err")
        ELSE IF size > Len(file.bytes) THEN NoDefinition("panic")
        ELSE new_from_utf8(index.word, SubSeq([i \in 1..size |-> file.bytes[i]], 1, size), sts)

\* Dictionary::read_definition: open (an error is returned), seek to offset
\* (its result is dropped; seeking past the end is allowed), read_exact of
\* size bytes (.unwrap(): a short read panics), then new_from_utf8.
read_definition(file, index, sts) ==
    LET offset == U32Value(index.offset)
        size == U32Value(index.size)
    IN  IF ~file.exists THEN NoDefinition("err")
        ELSE IF size > Max2(Len(file.bytes) - offset, 0) THEN NoDefinition("panic")
        ELSE new_from_utf8(index.word,
                           SubSeq([i \in 1..size |-> file.bytes[offset + i]], 1, size),
                           sts)

\* Content bytes: space, 'h', and the two bytes of U+00E9.
DictBytes == {32, 104, 195, 169}

\* The per-entry format codes m, l, w, p, n, r, x (h is among DictBytes) and
\* the unknown code q.
CodeBytes == {109, 108, 119, 112, 110, 114, 120, 113}

\* Content files: none, every byte string up to MaxFileLen, and those that
\* begin with a format code.
DictFiles ==
    {[exists |-> FALSE, bytes |-> <<>>]}
        \cup {[exists |-> TRUE, bytes |-> b] : b \in SeqsUpTo(DictBytes, MaxFileLen)}
        \cup {[exists |-> TRUE, bytes |-> <<c>> \o b] :
                 c \in CodeBytes, b \in SeqsUpTo(DictBytes, MaxFileLen - 1)}

InitRead ==
    /\ IdleIndex /\ IdleMatch /\ IdleCache /\ IdleSearch /\ IdleLoad /\ IdlePaths
    /\ IdleServe
    /\ IdleJson
    /\ IdleRandom
    /\ IdleReload
    /\ dict_file \in DictFiles
    /\ sametype_sequence \in SameTypeSequence
    /\ \E w \in {<<97>>, <<196, 177>>} :
       \E o \in 0..(Len(dict_file.bytes) + 1) :
       \E z \in 0..(Len(dict_file.bytes) + 1 - o) :
          def_index = [word |-> w, offset |-> <<0, o>>, size |-> <<0, z>>]
    /\ def_result = NoDefinition("none")

\* read_definition(&index); File::open may also fail on a file that exists.
ReadDefinition ==
    /\ def_result.tag = "none"
    /\ \/ def_result' = read_definition(dict_file, def_index, sametype_sequence)
       \/ /\ dict_file.exists
          /\ def_result' = NoDefinition("err")
    /\ UNCHANGED <<dict_file, sametype_sequence, def_index>>
    /\ UNCHANGED <<idxVars, matchVars, cacheVars, searchVars, loadVars, pathsVars,
                   reloadVars, randVars, jsonVars, serveVars>>

NextRead == ReadDefinition

SpecRead == InitRead /\ [][NextRead]_vars

\* The content-file bytes [offset, offset + size) of the record.
RecordBytes ==
    SubSeq(dict_file.bytes, U32Value(def_index.offset) + 1,
           U32Value(def_index.offset) + U32Value(def_index.size))

RecordInsideFile ==
    /\ dict_file.exists
    /\ U32Value(def_index.offset) + U32Value(def_index.size) <= Len(dict_file.bytes)

\* C4: with a fixed format tag (not None, not HTML) and a record lying wholly
\* inside the content file, the Definition read_definition returns has as its
\* text exactly the content-file bytes [offset, offset + size) (a String holds
\* the UTF-8 bytes it was decoded from) and as its word the record's word;
\* and whenever those bytes are UTF-8 and the file opens, a Definition is
\* what it returns.
C4_ReadsExactlyTheRecordBytes ==
    (def_result.tag # "none" /\ sametype_sequence \notin {"None", "HTML"} /\ RecordInsideFile)
        => /\ def_result.tag = "ok" =>
                /\ def_result.definition = RecordBytes
                /\ def_result.word = def_index.word
                /\ def_result.definition_type = sametype_sequence
           /\ ValidUtf8(RecordBytes) => def_result.tag \in {"ok", "err"}

\* Two definitions stored back to back; the record names the second.
C4_Witness ==
    /\ def_result.tag = "ok"
    /\ sametype_sequence = "Meaning"
    /\ dict_file.bytes = <<104, 195, 169>>
    /\ U32Value(def_index.offset) = 1
    /\ U32Value(def_index.size) = 2
    /\ def_result.definition = <<195, 169>>

\* read_exact finds fewer than size bytes at offset.
ShortRead ==
    /\ dict_file.exists
    /\ U32Value(def_index.size) > Max2(Len(dict_file.bytes) - U32Value(def_index.offset), 0)

\* C13: read_definition reports its failures as an error value: when fewer
\* than size bytes are available at offset, or when the bytes read are not
\* UTF-8, it returns Err (it does not panic and returns no text).
C13_ReadFailuresAreErr ==
    (def_result.tag # "none"
        /\ \/ ShortRead
           \/ RecordInsideFile /\ sametype_sequence # "None" /\ ~ValidUtf8(RecordBytes))
        => def_result.tag = "err"

\* The descriptor's code table: format code -> tag.
CodeTable ==
    {<<109, "Meaning">>, <<104, "HTML">>, <<108, "Locale">>, <<119, "MediaWiki">>,
     <<112, "Picture">>, <<110, "WordNet">>, <<114, "Resource">>, <<120, "Xdfx">>}

TagOfCode(b) ==
    IF \E p \in CodeTable : p[1] = b THEN (CHOOSE p \in CodeTable : p[1] = b)[2]
    ELSE "Meaning"

\* C14 as stated: with the tag None the first byte read is the format code
\* and the text is the remaining size - 1 bytes; with any other tag no byte
\* is stripped and the Definition carries the dictionary's tag.
C14_CodeByteElseWholeBuffer ==
    def_result.tag = "ok" =>
        IF sametype_sequence = "None"
        THEN /\ def_result.definition_type = TagOfCode(RecordBytes[1])
             /\ def_result.definition = Tail(RecordBytes)
        ELSE /\ def_result.definition_type = sametype_sequence
             /\ def_result.definition = RecordBytes

\* t is s without its leading and trailing whitespace characters.
IsTrimOf(t, s) ==
    \E a \in 0..Len(s) : \E b \in 0..(Len(s) - a) :
        /\ t = SubSeq(s, a + 1, Len(s) - b)
        /\ \A c \in {SubSeq(s, 1, a), SubSeq(s, Len(s) - b + 1, Len(s))} :
              ValidUtf8(c) /\ \A i \in 1..Len(Chars(c)) : IsWhiteSpace(Chars(c)[i])
        /\ t # <<>> => /\ ~IsWhiteSpace(Chars(t)[1])
                       /\ ~IsWhiteSpace(Chars(t)[Len(Chars(t))])

\* C14 amended: as C14, except that text whose tag (the entry's or the
\* dictionary's) is HTML is the bytes without their leading and trailing
\* whitespace.
C14_CodeByteElseWholeBufferHtmlTrimmed ==
    def_result.tag = "ok" =>
        LET raw == IF sametype_sequence = "None" THEN Tail(RecordBytes) ELSE RecordBytes
            ty == IF sametype_sequence = "None" THEN TagOfCode(RecordBytes[1])
                  ELSE sametype_sequence
        IN  /\ def_result.definition_type = ty
            /\ IF ty = "HTML" THEN IsTrimOf(def_result.definition, raw)
               ELSE def_result.definition = raw

\* The entry "q h" under the tag None: the unknown code q gives Meaning and
\* the text is " h".
C14_Witness ==
    /\ def_result.tag = "ok"
    /\ sametype_sequence = "None"
    /\ dict_file.bytes = <<113, 32, 104>>
    /\ U32Value(def_index.offset) = 0
    /\ U32Value(def_index.size) = 3
    /\ def_result.definition = <<32, 104>>
    /\ def_result.definition_type = "Meaning"


\* ------------------------------------------------------------------- descriptor
MaxIfoLines == 3

\* str::lines: the pieces between line feeds, a carriage return before a line
\* feed dropped with it; no empty last line after a final line feed.
Lines(s) ==
    LET ends == {i \in 1..Len(s) : s[i] = 10}
                  \cup (IF s # <<>> /\ s[Len(s)] # 10 THEN {Len(s) + 1} ELSE {})
        nth(k) == CHOOSE e \in ends : Cardinality({f \in ends : f <= e}) = k
        start(e) == IF \E f \in ends : f < e THEN Max({f \in ends : f < e}) + 1 ELSE 1
        last(e) == IF e <= Len(s) /\ e - 1 >= start(e) /\ s[e - 1] = 13 THEN e - 2 ELSE e - 1
    IN  SubSeq([k \in 1..Cardinality(ends) |-> SubSeq(s, start(nth(k)), last(nth(k)))],
               1, Cardinality(ends))

\* str::starts_with.
StartsWith(s, pat) == Len(pat) <= Len(s) /\ SubSeq(s, 1, Len(pat)) = pat

\* str::replace(pat, ""): every occurrence of pat, found left to right
\* without overlap, is removed.
RECURSIVE RemoveAll(_, _)
RemoveAll(s, pat) ==
    IF Len(s) < Len(pat) THEN s
    ELSE IF StartsWith(s, pat) THEN RemoveAll(SubSeq(s, Len(pat) + 1, Len(s)), pat)
    ELSE <<Head(s)>> \o RemoveAll(Tail(s), pat)

Pow10(k) == IF k = 0 THEN 1 ELSE IF k = 1 THEN 10 ELSE IF k = 2 THEN 100
            ELSE IF k = 3 THEN 1000 ELSE IF k = 4 THEN 10000 ELSE IF k = 5 THEN 100000
            ELSE IF k = 6 THEN 1000000 ELSE IF k = 7 THEN 10000000 ELSE 100000000

RECURSIVE DigitsValue(_)
DigitsValue(d) ==
    IF d = <<>> THEN 0 ELSE DigitsValue(SubSeq(d, 1, Len(d) - 1)) * 10 + (d[Len(d)] - 48)

\* str::parse::<u64>: an optional '+', then one or more decimal digits.  The
\* value is computed for up to nine digits (longer counts do not occur in the
\* descriptors below; past 20 digits the parse fails).
parse_u64(s) ==
    LET d == IF s # <<>> /\ s[1] = 43 THEN Tail(s) ELSE s
    IN  IF d = <<>> \/ (\E i \in 1..Len(d) : d[i] < 48 \/ d[i] > 57) \/ Len(d) > 20
        THEN [ok |-> FALSE, value |-> 0]
        ELSE [ok |-> TRUE, value |-> IF Len(d) <= 9 THEN DigitsValue(d) ELSE Pow10(8) * 10]

KeySametypesequence == <<115, 97, 109, 101, 116, 121, 112, 101, 115, 101, 113, 117, 101, 110, 99, 101>>

KeyWordcount == <<119, 111, 114, 100, 99, 111, 117, 110, 116>>

KeyBookname == <<98, 111, 111, 107, 110, 97, 109, 101>>

KeyVersion == <<118, 101, 114, 115, 105, 111, 110>>

\* Dictionary::parse_field_from_ifo: the first line that starts with
\* "<field>=", with every "<field>=" in it replaced by nothing.
parse_field_from_ifo(buffer, field) ==
    LET pattern == field \o <<61>>
        ls == Lines(buffer)
        hits == {i \in 1..Len(ls) : StartsWith(ls[i], pattern)}
    IN  IF hits = {} THEN [some |-> FALSE, value |-> <<>>]
        ELSE [some |-> TRUE, value |-> RemoveAll(ls[Min(hits)], pattern)]

\* Definition::match_sametype_sequence on the descriptor's value: a &str is
\* one of the codes only if it is that one character.
match_sametype_sequence_str(v) ==
    IF Len(v) = 1 THEN match_sametype_sequence(v[1]) ELSE "Meaning"

\* Dictionary::parse_ifo_file: File::open (an error is returned);
\* read_to_string(..).ok() leaves the buffer empty when the file is not
\* UTF-8; wordcount's parse().unwrap() panics on a value that is not a
\* number; the fallback name dict_path.to_str().unwrap() panics on a path
\* that is not UTF-8.
parse_ifo_file(file, dic, dict_path) ==
    LET buffer == IF ValidUtf8(file.bytes) THEN file.bytes ELSE <<>>
        sts == parse_field_from_ifo(buffer, KeySametypesequence)
        wc == parse_field_from_ifo(buffer, KeyWordcount)
        bn == parse_field_from_ifo(buffer, KeyBookname)
    IN  IF ~file.exists THEN [result |-> "err", dictionary |-> dic]
        ELSE IF wc.some /\ ~parse_u64(wc.value).ok THEN [result |-> "panic", dictionary |-> dic]
        ELSE IF ~bn.some /\ ~ValidUtf8(dict_path) THEN [result |-> "panic", dictionary |-> dic]
        ELSE [result |-> "ok",
              dictionary |->
                 [dic EXCEPT
                    !.sametype_sequence =
                        IF sts.some THEN match_sametype_sequence_str(sts.value) ELSE "None",
                    !.wordcount = IF wc.some THEN parse_u64(wc.value).value ELSE 0,
                    !.bookname = IF bn.some THEN bn.value ELSE dict_path]]

\* format!("{}", n) of a count.
RECURSIVE Decimal(_)
Decimal(n) == IF n < 10 THEN <<48 + n>> ELSE Decimal(n \div 10) \o <<48 + (n % 10)>>

\* The lines descriptors are written from: key, value and the line's bytes.
IfoLine(k, v) == [key |-> k, value |-> v, bytes |-> k \o <<61>> \o v]

IfoCounts == {2, 20000}

\* Display names: "B", "a=b", "" and "xbookname=y".
IfoBooknames == {<<66>>, <<97, 61, 98>>, <<>>, <<120>> \o KeyBookname \o <<61, 121>>}

\* Format codes: m, h, x, and the unknown code q.
IfoCodes == {<<109>>, <<104>>, <<120>>, <<113>>}

IfoLines ==
    {IfoLine(KeySametypesequence, c) : c \in IfoCodes}
        \cup {IfoLine(KeyBookname, b) : b \in IfoBooknames}
        \cup {IfoLine(KeyWordcount, Decimal(n)) : n \in IfoCounts}
        \cup {IfoLine(KeyWordcount, <<120>>), IfoLine(KeyVersion, <<50>>)}

RECURSIVE JoinLines(_)
JoinLines(ls) == IF ls = <<>> THEN <<>> ELSE Head(ls).bytes \o <<10>> \o JoinLines(Tail(ls))

\* A descriptor file written from the lines ls.
IfoFile(ls) == [exists |-> TRUE, bytes |-> JoinLines(ls), lines |-> ls]

NoFile == [exists |-> FALSE, bytes |-> <<>>, lines |-> <<>>]

\* "d.dict", and a path whose directory name is the byte 0xFF.
DictPaths == {<<100, 46, 100, 105, 99, 116>>, <<255, 47, 100, 46, 100, 105, 99, 116>>}

InitIfo ==
    /\ IdleIndex /\ IdleMatch /\ IdleCache /\ IdleSearch /\ IdleRead /\ IdlePaths
    /\ IdleServe
    /\ IdleJson
    /\ IdleRandom
    /\ IdleReload
    /\ \E p \in DictPaths : load_path = [is_dir |-> FALSE, listing |-> "none", dict_path |-> p]
    /\ ifo_file \in {NoFile} \cup {IfoFile(ls) : ls \in SeqsUpTo(IfoLines, MaxIfoLines)}
    /\ idx_file = [exists |-> FALSE, bytes |-> <<>>, records |-> <<>>, cut |-> 0]
    /\ write_fails = FALSE
    /\ dictionary = NewDictionary
    /\ dictionary_result = "none"
    /\ load_trace = NoTrace

\* dic.parse_ifo_file() on a new Dictionary.
ParseIfoFile ==
    /\ dictionary_result = "none"
    /\ LET r == parse_ifo_file(ifo_file, dictionary, load_path.dict_path)
       IN  /\ dictionary_result' = r.result
           /\ dictionary' = r.dictionary
    /\ UNCHANGED <<load_path, ifo_file, idx_file, write_fails, load_trace>>
    /\ UNCHANGED <<idxVars, matchVars, cacheVars, searchVars, readVars, pathsVars,
                   reloadVars, randVars, jsonVars, serveVars>>

NextIfo == ParseIfoFile

SpecIfo == InitIfo /\ [][NextIfo]_vars

\* ---------------------------------------------------------------------- loading
\* Dictionary::parse_index run to its end from position pos.
RECURSIVE parse_index(_, _, _)

\* What parse_index does with the outcome of one loop iteration: return at
\* end of stream, unwind on a panic, else push and go round again.
parse_index_continue(raw, step, acc) ==
    IF step.pc = "done" THEN [result |-> "ok", indices |-> acc]
    ELSE IF step.pc = "panic" THEN [result |-> "panic", indices |-> <<>>]
    ELSE parse_index(raw, step.pos, acc \o step.push)

parse_index(raw, pos, acc) == parse_index_continue(raw, parse_index_iteration(raw, pos), acc)

\* Dictionary::parse_index_file: File::open (an error is returned), then the
\* whole file through parse_index(..).unwrap().
parse_index_file(file) ==
    IF ~file.exists THEN [result |-> "err", indices |-> <<>>]
    ELSE parse_index(file.bytes, 0, <<>>)

\* Dictionary::save_cache: the file afterwards and the result.
save_cache(file, recs, fails) ==
    IF fails THEN [result |-> "err", file |-> file]
    ELSE [result |-> "ok", file |-> [exists |-> TRUE, bytes |-> bincode_serialize(recs)]]

\* Dictionary::find_ifo_in_dir: read_dir(..).unwrap() panics on a directory
\* that cannot be listed.
find_ifo_in_dir(path) ==
    CASE path.listing = "ifo"    -> "some"
      [] path.listing = "no_ifo" -> "none"
      [] OTHER                   -> "panic"

Outcome(res, dic, cache, trace) ==
    [result |-> res, dictionary |-> dic, cache_file |-> cache, trace |-> trace]

load_dictionary_from_indexfirst(located, d0, x, cache, fails) ==
    LET c == load_cache(cache, d0.dictionary.indices)
        sv == save_cache(cache, x.indices, fails)
    IN  IF located = "panic" THEN Outcome("panic", NewDictionary, cache, NoTrace)
        ELSE IF located = "none" THEN Outcome("PathError", NewDictionary, cache, NoTrace)
        ELSE IF d0.result = "panic" THEN Outcome("panic", NewDictionary, cache, NoTrace)
        ELSE IF d0.result = "err" THEN Outcome("IOError", NewDictionary, cache, NoTrace)
        ELSE IF x.result = "ok"
             THEN Outcome("ok", [d0.dictionary EXCEPT !.indices = x.indices], sv.file,
                          [from_cache |-> FALSE, index_parsed |-> TRUE, save |-> sv.result])
        ELSE IF c.result = "ok"
             THEN Outcome("ok", [d0.dictionary EXCEPT !.indices = c.indices], cache,
                          [from_cache |-> TRUE, index_parsed |-> FALSE, save |-> "none"])
        ELSE IF x.result = "panic"
             THEN Outcome("panic", NewDictionary, cache, NoTrace)
        ELSE Outcome("IOError", NewDictionary, cache, NoTrace)

load_dictionary_from_savefatal(located, d0, x, cache, fails) ==
    LET c == load_cache(cache, d0.dictionary.indices)
        sv == save_cache(cache, x.indices, fails)
    IN  IF located = "panic" THEN Outcome("panic", NewDictionary, cache, NoTrace)
        ELSE IF located = "none" THEN Outcome("PathError", NewDictionary, cache, NoTrace)
        ELSE IF d0.result = "panic" THEN Outcome("panic", NewDictionary, cache, NoTrace)
        ELSE IF d0.result = "err" THEN Outcome("IOError", NewDictionary, cache, NoTrace)
        ELSE IF c.result = "ok"
             THEN Outcome("ok", [d0.dictionary EXCEPT !.indices = c.indices], cache,
                          [from_cache |-> TRUE, index_parsed |-> FALSE, save |-> "none"])
        ELSE IF x.result = "panic"
             THEN Outcome("panic", NewDictionary, cache, NoTrace)
        ELSE IF x.result = "err"
             THEN Outcome("IOError", NewDictionary, cache, NoTrace)
        ELSE IF sv.result = "err"
             THEN Outcome("IOError", NewDictionary, cache, NoTrace)
        ELSE Outcome("ok", [d0.dictionary EXCEPT !.indices = x.indices], sv.file,
                     [from_cache |-> FALSE, index_parsed |-> TRUE, save |-> sv.result])

\* The body of load_dictionary, given what find_ifo_in_dir found (located),
\* what parse_ifo_file returned (d0) and what parse_index_file returns when
\* it is called (x): PathError without an .ifo file; `?` on parse_ifo_file;
\* the cache first, the index file only when load_cache fails; the result of
\* save_cache is dropped.
load_dictionary_from(located, d0, x, cache, fails) ==
    LET c == load_cache(cache, d0.dictionary.indices)
        sv == save_cache(cache, x.indices, fails)
    IN  IF located = "panic" THEN Outcome("panic", NewDictionary, cache, NoTrace)
        ELSE IF located = "none" THEN Outcome("PathError", NewDictionary, cache, NoTrace)
        ELSE IF d0.result = "panic" THEN Outcome("panic", NewDictionary, cache, NoTrace)
        ELSE IF d0.result = "err" THEN Outcome("IOError", NewDictionary, cache, NoTrace)
        ELSE IF c.result = "ok"
             THEN Outcome("ok", [d0.dictionary EXCEPT !.indices = c.indices], cache,
                          [from_cache |-> TRUE, index_parsed |-> FALSE, save |-> "none"])
        ELSE IF x.result = "panic"
             THEN Outcome("panic", NewDictionary, cache, NoTrace)
        ELSE IF x.result = "err"
             THEN Outcome("IOError", NewDictionary, cache, NoTrace)
        ELSE Outcome("ok", [d0.dictionary EXCEPT !.indices = x.indices], sv.file,
                     [from_cache |-> FALSE, index_parsed |-> TRUE, save |-> sv.result])

\* Dictionary::load_dictionary.
load_dictionary(path, ifo, idx, cache, fails) ==
    load_dictionary_from(IF path.is_dir THEN find_ifo_in_dir(path) ELSE "some",
                         parse_ifo_file(ifo, NewDictionary, path.dict_path),
                         parse_index_file(idx), cache, fails)

\* The paths a dictionary is loaded from: an .ifo path, a directory holding
\* an .ifo file, one holding none, and one that cannot be listed.
LoadPaths ==
    {[is_dir |-> d[1], listing |-> d[2], dict_path |-> p] :
        d \in {<<FALSE, "none">>, <<TRUE, "ifo">>, <<TRUE, "no_ifo">>, <<TRUE, "unreadable">>},
        p \in DictPaths}

\* Descriptors: none, an empty one, a count of 2 with and without a name, and
\* a count that is not a number.
LoadIfoFiles ==
    {NoFile, IfoFile(<<>>),
     IfoFile(<<IfoLine(KeyWordcount, Decimal(2))>>),
     IfoFile(<<IfoLine(KeyBookname, <<66>>), IfoLine(KeyWordcount, Decimal(2))>>),
     IfoFile(<<IfoLine(KeyBookname, <<66>>), IfoLine(KeyWordcount, <<120>>)>>)}

LoadRecords == {[word |-> w, offset |-> <<0, 246>>, size |-> <<0, 123>>] : w \in {<<97>>, <<196, 177>>}}

\* An index file written from records rs and then shortened by k bytes.
IdxFile(rs, k) ==
    [exists |-> TRUE,
     bytes |-> SubSeq(SerializeIndex(rs), 1, Len(SerializeIndex(rs)) - k),
     records |-> rs, cut |-> k]

NoIdxFile == [exists |-> FALSE, bytes |-> <<>>, records |-> <<>>, cut |-> 0]

\* Index files: none, whole ones, and ones that end inside the last record's
\* size, offset or word.
LoadIdxFiles ==
    {NoIdxFile}
        \cup {IdxFile(rs, 0) : rs \in SeqsUpTo(LoadRecords, MaxRecords)}
        \cup {IdxFile(<<r>>, k) : r \in LoadRecords, k \in {2, 6, 9}}

\* What is at cache_path before the load: nothing, an earlier cache, an
\* earlier cache cut short, or other bytes.
LoadCaches ==
    { <<[exists |-> FALSE, bytes |-> <<>>], "none">>,
      <<[exists |-> TRUE, bytes |-> bincode_serialize(StaleRecords)], "stale">>,
      <<[exists |-> TRUE, bytes |-> SubSeq(bincode_serialize(StaleRecords), 1, 12)], "damaged">>,
      <<[exists |-> TRUE, bytes |-> <<1>>], "damaged">> }

InitLoad ==
    /\ IdleIndex /\ IdleMatch /\ IdleSearch /\ IdleRead /\ IdlePaths
    /\ IdleServe
    /\ IdleJson
    /\ IdleRandom
    /\ IdleReload
    /\ load_path \in LoadPaths
    /\ ifo_file \in LoadIfoFiles
    /\ idx_file \in LoadIdxFiles
    /\ \E c \in LoadCaches : cache_file = c[1] /\ cache_origin = c[2]
    /\ write_fails \in BOOLEAN
    /\ dictionary = NewDictionary
    /\ dictionary_result = "none"
    /\ load_trace = NoTrace
    /\ dic1_indices = <<>> /\ dic2_indices = <<>>
    /\ save_result = "idle" /\ load_result = "idle" /\ loaded_origin = "none"

\* Dictionary::load_dictionary(&path).
LoadDictionary ==
    /\ dictionary_result = "none"
    /\ LET r == load_dictionary(load_path, ifo_file, idx_file, cache_file, write_fails)
       IN  /\ dictionary_result' = r.result
           /\ dictionary' = r.dictionary
           /\ cache_file' = r.cache_file
           /\ cache_origin' = IF r.trace.save = "ok" THEN "saved" ELSE cache_origin
           /\ load_trace' = r.trace
    /\ UNCHANGED <<load_path, ifo_file, idx_file, write_fails>>
    /\ UNCHANGED <<dic1_indices, dic2_indices, save_result, load_result, loaded_origin>>
    /\ UNCHANGED <<idxVars, matchVars, searchVars, readVars, pathsVars, reloadVars,
                   randVars, jsonVars, serveVars>>

NextLoad == LoadDictionary

SpecLoad == InitLoad /\ [][NextLoad]_vars

\* The descriptor is located and opens.
DescriptorOpens == (load_path.is_dir => load_path.listing = "ifo") /\ ifo_file.exists

\* The lines of the descriptor with key k, in file order.
LinesOf(k) == SelectSeq(ifo_file.lines, LAMBDA l : l.key = k)

\* The descriptor's count, if it has one, is a decimal number, and it names
\* the dictionary or the content path is UTF-8.
DescriptorParses ==
    /\ LinesOf(KeyWordcount) # <<>> =>
            \E n \in IfoCounts : LinesOf(KeyWordcount)[1].value = Decimal(n)
    /\ LinesOf(KeyBookname) # <<>> \/ ValidUtf8(load_path.dict_path)

\* The index file holds whole well-formed records.
IdxWellFormed == idx_file.exists /\ idx_file.cut = 0 /\ WellFormed(idx_file.records)

\* C11: load_dictionary returns Err only when the descriptor cannot be
\* located or opened or the index file cannot be opened; when the cache is
\* absent, cut short or corrupt and the index file holds whole records, it
\* parses the index file, attempts save_cache and returns Ok with the parsed
\* records whether or not the save succeeds.
C11_CacheFallback ==
    /\ dictionary_result \in {"PathError", "IOError"} =>
            ~DescriptorOpens \/ ~idx_file.exists
    /\ (dictionary_result # "none" /\ DescriptorOpens /\ DescriptorParses
            /\ IdxWellFormed /\ cache_origin # "stale")
        => /\ dictionary_result = "ok"
           /\ load_trace.index_parsed
           /\ load_trace.save = (IF write_fails THEN "err" ELSE "ok")
           /\ dictionary.indices = idx_file.records

C11_Witness ==
    /\ dictionary_result = "ok"
    /\ write_fails
    /\ load_trace.save = "err"
    /\ cache_file.exists /\ cache_origin = "damaged"
    /\ Len(idx_file.records) = 2
    /\ dictionary.indices = idx_file.records

\* C12: after every successful load_dictionary the dictionary's wordcount
\* equals the number of loaded records.
C12_WordcountIsRecordCount ==
    dictionary_result = "ok" => dictionary.wordcount = Len(dictionary.indices)

\* ---- load, change the index file, load again
MaxReloads == 1

\* What the index file is replaced by between two loads: nothing (deleted),
\* or a file written from other records.
ChangedIdxFiles ==
    {NoIdxFile}
        \cup {IdxFile(<<r>>, 0) : r \in LoadRecords}
        \cup {IdxFile(<<r, r>>, 0) : r \in LoadRecords}

\* load_dictionary has returned (or unwound); the index file is replaced or
\* deleted and load_dictionary is called again on the same path, with the
\* descriptor and the cache file as the previous call left them.
ChangeIndexFile ==
    /\ dictionary_result # "none"
    /\ reloads < MaxReloads
    /\ idx_file' \in ChangedIdxFiles \ {idx_file}
    /\ first_load' = IF reloads = 0
                     THEN [result |-> dictionary_result, indices |-> dictionary.indices,
                           trace |-> load_trace]
                     ELSE first_load
    /\ reloads' = reloads + 1
    /\ dictionary' = NewDictionary
    /\ dictionary_result' = "none"
    /\ load_trace' = NoTrace
    /\ UNCHANGED <<load_path, ifo_file, write_fails>>
    /\ UNCHANGED <<idxVars, matchVars, cacheVars, searchVars, readVars, pathsVars,
                   randVars, jsonVars, serveVars>>

NextReload == LoadDictionary \/ ChangeIndexFile

SpecReload == InitLoad /\ [][NextReload]_vars

\* The file at cache_path deserializes.
CacheDeserializes == cache_file.exists /\ bincode_deserialize(cache_file.bytes).ok

\* C22: when the descriptor parses and the cache deserializes, load_dictionary
\* returns the cache's records without parsing the index file and without
\* writing the cache; so a load made after the index file was changed or
\* deleted returns the records of the first load whenever the cache
\* deserializes.
C22_CacheShadowsIndex ==
    /\ [][(dictionary_result = "none" /\ dictionary_result' # "none"
              /\ DescriptorOpens /\ DescriptorParses /\ CacheDeserializes)
            => /\ dictionary_result' = "ok"
               /\ load_trace' = [from_cache |-> TRUE, index_parsed |-> FALSE, save |-> "none"]
               /\ cache_file' = cache_file
               /\ dictionary'.indices = bincode_deserialize(cache_file.bytes).value]_vars
    /\ []((reloads >= 1 /\ dictionary_result # "none" /\ first_load.result = "ok"
              /\ CacheDeserializes)
            => /\ dictionary_result = "ok"
               /\ dictionary.indices = first_load.indices
               /\ load_trace.from_cache /\ ~load_trace.index_parsed)

\* The first load parsed the index file and wrote the cache; the index file
\* was then deleted, and the second load returned the first load's record.
C22_Witness ==
    /\ reloads = 1 /\ dictionary_result = "ok"
    /\ first_load.result = "ok" /\ first_load.trace.index_parsed
    /\ first_load.trace.save = "ok"
    /\ ~idx_file.exists
    /\ load_trace.from_cache
    /\ Len(dictionary.indices) = 1 /\ dictionary.indices = first_load.indices

\* The cache was there before the first load, written from other records
\* than the index file holds: both loads return the cache's records.
C22_WitnessStale ==
    /\ reloads = 1 /\ dictionary_result = "ok"
    /\ first_load.trace.from_cache /\ load_trace.from_cache
    /\ idx_file.exists /\ idx_file.records # StaleRecords
    /\ dictionary.indices = StaleRecords

\* ---- a random word of a loaded dictionary
\* Dictionary::select_random_word with n the number thread_rng() draws:
\* gen_range(0, wordcount) panics on an empty range, otherwise yields some
\* 0 <= n < wordcount; &self.indices[n] panics when n is not below the number
\* of records.
select_random_word(dic, n) ==
    IF dic.wordcount = 0 THEN [tag |-> "panic", n |-> 0]
    ELSE IF n >= Len(dic.indices) THEN [tag |-> "panic", n |-> n]
    ELSE [tag |-> "some", n |-> n]

\* dic.select_random_word() on a dictionary that load_dictionary returned.
SelectRandomWord ==
    /\ dictionary_result = "ok"
    /\ random_word.tag = "none"
    /\ \E n \in 0..Max2(dictionary.wordcount - 1, 0) :
          random_word' = select_random_word(dictionary, n)
    /\ UNCHANGED <<loadVars, reloadVars, serveVars>>
    /\ UNCHANGED <<idxVars, matchVars, cacheVars, searchVars, readVars, pathsVars,
                   jsonVars, serveVars>>

NextRandom == LoadDictionary \/ SelectRandomWord

SpecRandom == InitLoad /\ [][NextRandom]_vars

\* C25: on every successfully loaded dictionary select_random_word returns
\* one of the loaded records and does not panic, whatever count the
\* descriptor declares.
C25_RandomWordIsALoadedRecord ==
    random_word.tag # "none" =>
        /\ random_word.tag = "some"
        /\ random_word.n < Len(dictionary.indices)

\* The descriptor has a line for each of the three keys, the count a number.
HasAllKeys ==
    /\ ifo_file.exists
    /\ LinesOf(KeySametypesequence) # <<>>
    /\ LinesOf(KeyBookname) # <<>>
    /\ LinesOf(KeyWordcount) # <<>>
    /\ \E n \in IfoCounts : LinesOf(KeyWordcount)[1].value = Decimal(n)

\* C15: for a descriptor with lines sametypesequence=S, bookname=B and
\* wordcount=N in any order, parse_ifo_file sets the display name to exactly
\* B (all the text after the first "bookname=" of the line), the count to N
\* and the tag to that of code S, each taken from the first line of its key.
C15_FieldsFromFirstLines ==
    (dictionary_result # "none" /\ HasAllKeys) =>
        /\ dictionary_result = "ok"
        /\ dictionary.bookname = LinesOf(KeyBookname)[1].value
        /\ Decimal(dictionary.wordcount) = LinesOf(KeyWordcount)[1].value
        /\ dictionary.sametype_sequence = TagOfCode(LinesOf(KeySametypesequence)[1].value[1])

\* C16: with no sametypesequence line the tag is None, with no wordcount line
\* the count is 0, with no bookname line the display name is the content
\* file's path string, and none of these absences makes parse_ifo_file fail.
C16_DescriptorDefaults ==
    (dictionary_result # "none" /\ ifo_file.exists
        /\ (LinesOf(KeyWordcount) # <<>> =>
               \E n \in IfoCounts : LinesOf(KeyWordcount)[1].value = Decimal(n)))
    => /\ dictionary_result = "ok"
       /\ LinesOf(KeySametypesequence) = <<>> => dictionary.sametype_sequence = "None"
       /\ LinesOf(KeyWordcount) = <<>> => dictionary.wordcount = 0
       /\ LinesOf(KeyBookname) = <<>> => dictionary.bookname = load_path.dict_path

\* ----------------------------------------------------------------- loading many
MaxPaths == 2

MaxSubdirs == 2

NoCache == [exists |-> FALSE, bytes |-> <<>>]

NamedIfo == IfoFile(<<IfoLine(KeyBookname, <<66>>), IfoLine(KeyWordcount, Decimal(2))>>)

OneRecord == <<[word |-> <<97>>, offset |-> <<0, 246>>, size |-> <<0, 123>>]>>

DirEntry(k, isdir, listing, ifo, idx, cache) ==
    [kind |-> k,
     path |-> [is_dir |-> isdir, listing |-> listing, dict_path |-> <<100, 46, 100, 105, 99, 116>>],
     ifo |-> ifo, idx |-> idx, cache |-> cache, write_fails |-> FALSE]

\* A directory entry of each kind: a dictionary with its index file, one with
\* only a cache, a directory without an .ifo file, one whose index file is
\* missing, a plain file, and a directory that cannot be listed.
Dir(k) ==
    CASE k = "good"   -> DirEntry(k, TRUE, "ifo", NamedIfo, IdxFile(OneRecord, 0), NoCache)
      [] k = "cached" -> DirEntry(k, TRUE, "ifo", NamedIfo, NoIdxFile,
                                  [exists |-> TRUE, bytes |-> bincode_serialize(StaleRecords)])
      [] k = "no_ifo" -> DirEntry(k, TRUE, "no_ifo", NoFile, NoIdxFile, NoCache)
      [] k = "no_idx" -> DirEntry(k, TRUE, "ifo", NamedIfo, NoIdxFile, NoCache)
      [] k = "file"   -> DirEntry(k, FALSE, "none", NoFile, NoIdxFile, NoCache)
      [] k = "unlistable" -> DirEntry(k, TRUE, "unreadable", NoFile, NoIdxFile, NoCache)

PathEntry(self, subs) ==
    [dir |-> Dir(self), subdirs |-> SubSeq([i \in 1..Len(subs) |-> Dir(subs[i])], 1, Len(subs))]

\* The given paths: directories whose sub-directories do or do not hold a
\* dictionary, and the special cases: a sub-directory with a missing index
\* file or only a cache, a plain file among the entries, a sub-directory that
\* cannot be listed, a path that is a file, a path that cannot be listed.
PathEntries ==
    {PathEntry("no_ifo", subs) : subs \in SeqsUpTo({"good", "no_ifo"}, MaxSubdirs)}
      \cup {PathEntry("good", <<"no_ifo", "good">>),
            PathEntry("no_idx", <<"no_idx", "cached">>),
            PathEntry("no_ifo", <<"file", "good">>),
            PathEntry("no_ifo", <<"unlistable", "good">>),
            PathEntry("file", <<>>),
            PathEntry("unlistable", <<>>)}

load_dir(d) == load_dictionary(d.path, d.ifo, d.idx, d.cache, d.write_fails)

InitPaths ==
    /\ IdleIndex /\ IdleMatch /\ IdleCache /\ IdleSearch /\ IdleRead /\ IdleLoad
    /\ IdleServe
    /\ IdleJson
    /\ IdleRandom
    /\ IdleReload
    /\ paths \in SeqsUpTo(PathEntries, MaxPaths)
    /\ paths_done = 0
    /\ loaded_dicts = <<>>
    /\ paths_pc = "loop"

\* load_dictionary on the directory itself (0) and on each of its entries.
load_dirs(p) == [k \in 0..Len(p.subdirs) |-> load_dir(IF k = 0 THEN p.dir ELSE p.subdirs[k])]

load_path_entry_from_stoponerr(p, n, ld) ==
    LET subs == SelectSeq(Positions(Len(p.subdirs)), LAMBDA k : p.subdirs[k].path.is_dir)
        firstbad == {k \in 1..Len(subs) : ld[subs[k]].result # "ok"}
        good == IF firstbad = {} THEN subs ELSE SubSeq(subs, 1, Min(firstbad) - 1)
    IN  IF ~p.dir.path.is_dir THEN [pc |-> "loop", loaded |-> <<>>]
        ELSE IF p.dir.path.listing = "unreadable" THEN [pc |-> "panic", loaded |-> <<>>]
        ELSE IF \E k \in 1..Len(subs) : ld[subs[k]].result = "panic"
             THEN [pc |-> "panic", loaded |-> <<>>]
        ELSE IF ld[0].result = "panic" THEN [pc |-> "panic", loaded |-> <<>>]
        ELSE [pc |-> "loop",
              loaded |->
                 SubSeq([i \in 1..Len(good) |->
                            [ifo_path |-> <<n, good[i]>>, dictionary |-> ld[good[i]].dictionary]],
                        1, Len(good))
                 \o (IF ld[0].result = "ok"
                     THEN <<[ifo_path |-> <<n, 0>>, dictionary |-> ld[0].dictionary]>>
                     ELSE <<>>)]

\* The body of `for path in paths` for the n-th path p, given what
\* load_dictionary returns on each directory (ld): nothing for a path that is
\* not a directory; read_dir(&path).unwrap(); load_dictionary on every entry
\* that is a directory, keeping the Ok ones in order (a panic in one unwinds
\* through the parallel iterator); then load_dictionary on the directory
\* itself.
load_path_entry_from(p, n, ld) ==
    LET subs == SelectSeq(Positions(Len(p.subdirs)), LAMBDA k : p.subdirs[k].path.is_dir)
        good == SelectSeq(subs, LAMBDA k : ld[k].result = "ok")
    IN  IF ~p.dir.path.is_dir THEN [pc |-> "loop", loaded |-> <<>>]
        ELSE IF p.dir.path.listing = "unreadable" THEN [pc |-> "panic", loaded |-> <<>>]
        ELSE IF \E k \in 1..Len(subs) : ld[subs[k]].result = "panic"
             THEN [pc |-> "panic", loaded |-> <<>>]
        ELSE IF ld[0].result = "panic" THEN [pc |-> "panic", loaded |-> <<>>]
        ELSE [pc |-> "loop",
              loaded |->
                 SubSeq([i \in 1..Len(good) |->
                            [ifo_path |-> <<n, good[i]>>, dictionary |-> ld[good[i]].dictionary]],
                        1, Len(good))
                 \o (IF ld[0].result = "ok"
                     THEN <<[ifo_path |-> <<n, 0>>, dictionary |-> ld[0].dictionary]>>
                     ELSE <<>>)]

\* The path entry after the loads of the directories in ran (and of the
\* directory itself when self_ran): each load may have written its cache.
AfterLoads(p, ld, ran, self_ran) ==
    [dir |-> IF self_ran THEN [p.dir EXCEPT !.cache = ld[0].cache_file] ELSE p.dir,
     subdirs |-> SubSeq([k \in 1..Len(p.subdirs) |->
                            IF k \in ran
                            THEN [p.subdirs[k] EXCEPT !.cache = ld[k].cache_file]
                            ELSE p.subdirs[k]],
                        1, Len(p.subdirs))]

\* The n-th iteration of `for path in paths`, with ld what load_dictionary
\* returns on each directory: when the iteration panics, any of the parallel
\* loads may have run before the unwinding.
LoadPathFrom(n, p, ld) ==
    LET r == load_path_entry_from(p, n, ld)
        dirs == {k \in 1..Len(p.subdirs) : p.subdirs[k].path.is_dir /\ ld[k].result # "panic"}
    IN  /\ paths_pc' = r.pc
        /\ loaded_dicts' = loaded_dicts \o r.loaded
        /\ IF ~p.dir.path.is_dir \/ p.dir.path.listing = "unreadable"
           THEN UNCHANGED paths
           ELSE IF r.pc = "panic"
           THEN \E ran \in SUBSET dirs : paths' = [paths EXCEPT ![n] = AfterLoads(p, ld, ran, FALSE)]
           ELSE paths' = [paths EXCEPT ![n] = AfterLoads(p, ld, dirs, TRUE)]

\* One iteration of `for path in paths`.
LoadPath ==
    /\ paths_pc = "loop"
    /\ paths_done < Len(paths)
    /\ LoadPathFrom(paths_done + 1, paths[paths_done + 1], load_dirs(paths[paths_done + 1]))
    /\ paths_done' = paths_done + 1
    /\ UNCHANGED <<idxVars, matchVars, cacheVars, searchVars, readVars, loadVars,
                   reloadVars, randVars, jsonVars, serveVars>>

\* The loop is over: dicts is returned.
LoadPathsReturn ==
    /\ paths_pc = "loop"
    /\ paths_done = Len(paths)
    /\ paths_pc' = "done"
    /\ UNCHANGED <<paths, paths_done, loaded_dicts>>
    /\ UNCHANGED <<idxVars, matchVars, cacheVars, searchVars, readVars, loadVars,
                   reloadVars, randVars, jsonVars, serveVars>>

NextPaths == LoadPath \/ LoadPathsReturn

SpecPaths == InitPaths /\ [][NextPaths]_vars

\* The directories load_dictionary is tried on: each given path that is a
\* directory (sub-directory 0) and its entries that are directories.
TriedDirs ==
    {<<n, k>> \in (1..Len(paths)) \X (0..(MaxSubdirs + 1)) :
        /\ paths[n].dir.path.is_dir
        /\ k <= Len(paths[n].subdirs)
        /\ k > 0 => paths[n].subdirs[k].path.is_dir}

KindOf(d) == IF d[2] = 0 THEN paths[d[1]].dir.kind ELSE paths[d[1]].subdirs[d[2]].kind

\* C18: when load_dicts_from_paths_and_subpaths returns, a directory whose
\* load_dictionary fails with PathError (no .ifo file) or IOError (no index
\* file) is not among the dictionaries, and every directory that holds a
\* loadable dictionary is, exactly once.
C18_LoadsAreIndependent ==
    paths_pc = "done" =>
        /\ {loaded_dicts[i].ifo_path : i \in 1..Len(loaded_dicts)}
              = {d \in TriedDirs : KindOf(d) \in {"good", "cached"}}
        /\ \A i, j \in 1..Len(loaded_dicts) :
              loaded_dicts[i].ifo_path = loaded_dicts[j].ifo_path => i = j
        /\ \A i \in 1..Len(loaded_dicts) :
              loaded_dicts[i].dictionary.indices =
                  (IF KindOf(loaded_dicts[i].ifo_path) = "good" THEN OneRecord ELSE StaleRecords)

\* A sub-directory without an .ifo file between two that load, under a
\* directory that does not load; and a path whose own index file is missing.
C18_Witness ==
    /\ paths_pc = "done"
    /\ Len(paths) = 2
    /\ paths[1].dir.kind = "no_ifo"
    /\ Len(paths[1].subdirs) = 2
    /\ paths[1].subdirs[1].kind = "no_ifo" /\ paths[1].subdirs[2].kind = "good"
    /\ paths[2].dir.kind = "no_idx"
    /\ Len(loaded_dicts) = 2
    /\ loaded_dicts[1].ifo_path = <<1, 2>>
    /\ loaded_dicts[2].ifo_path = <<2, 2>>

\* ------------------------------------------------------- parse_index, any bytes
MaxRawLen == 5

\* 0x00, 'a', and the two bytes of U+0131, each of which alone is not UTF-8.
RawBytes == {0, 97, 196, 177}

\* parse_index on an arbitrary byte sequence (not written from records).
InitRaw ==
    /\ IdleMatch /\ IdleCache /\ IdleSearch /\ IdleRead /\ IdleLoad /\ IdlePaths
    /\ IdleServe
    /\ IdleJson
    /\ IdleRandom
    /\ IdleReload
    /\ raw_indices \in SeqsUpTo(RawBytes, MaxRawLen)
    /\ src_records = <<>>
    /\ cut = 0
    /\ iter = 0
    /\ indices = <<>>
    /\ ipc = "loop"
    /\ iterations = 0

SpecRaw == InitRaw /\ [][NextIndex]_vars

\* C19: every iteration of parse_index's loop, the skip-on-error ones
\* included, consumes at least one input byte or ends the loop, and the
\* number of iterations is at most the input length plus one.
C19_EveryIterationAdvances ==
    /\ [](iterations <= Len(raw_indices) + 1 /\ iter <= Len(raw_indices))
    /\ [][(ipc = "loop" /\ ipc' = "loop") => iter' > iter]_vars

\* A word that is not UTF-8 is skipped, an empty word without offset and size
\* is skipped, and the third iteration finds the end of the input.
C19_Witness ==
    /\ raw_indices = <<177, 0, 0>>
    /\ ipc = "done"
    /\ iterations = 3
    /\ iter = 3

\* The input ends inside the last record's word: at least one of its bytes
\* is there, its 0x00 is not.
MidWord ==
    /\ Len(src_records) >= 1
    /\ WellFormed(src_records)
    /\ cut >= 9
    /\ cut <= 8 + Len(src_records[Len(src_records)].word)

\* C20: when the input ends in the middle of a word, parse_index stops
\* without panicking, as at the end of the stream, and returns the records
\* decoded so far.
C20_MidWordStopsCleanly ==
    (MidWord /\ ipc # "loop") => (ipc = "done" /\ indices = Front(src_records))

\* ---------------------------------------------------------------- JSON output
MaxGroups == 2

\* The loaded dictionaries: two that share a display name, and one whose
\* second record lies outside its .dict file (read_definition returns Err).
JsonShelf ==
    << [bookname |-> "fruit",
        entries |-> <<[word |-> "armut", definition |-> "pear", readable |-> TRUE],
                      [word |-> "armutlar", definition |-> "pears", readable |-> TRUE]>>],
       [bookname |-> "fruit",
        entries |-> <<[word |-> "armut", definition |-> "a tree", readable |-> TRUE]>>],
       [bookname |-> "tens",
        entries |-> <<[word |-> "on", definition |-> "ten", readable |-> TRUE],
                      [word |-> "yirmi", definition |-> "twenty", readable |-> FALSE]>>] >>

\* A group as search_in_dicts builds it: a dictionary and a non-empty list of
\* its records.
JsonGroups ==
    {[dict |-> d, index |-> ix] :
        d \in 1..Len(JsonShelf), ix \in {<<1>>, <<2>>, <<1, 2>>, <<2, 1>>}}
      \ {g \in [dict : 1..Len(JsonShelf), index : {<<1>>, <<2>>, <<1, 2>>, <<2, 1>>}] :
            \E i \in 1..Len(g.index) : g.index[i] > Len(JsonShelf[g.dict].entries)}

\* pair.dict.read_definition(index): the Definition, or Err.
JsonDefinition(d, r) ==
    LET en == JsonShelf[d].entries[r]
    IN  IF en.readable THEN [tag |-> "ok", word |-> en.word, definition |-> en.definition]
        ELSE [tag |-> "err", word |-> en.word, definition |-> ""]

\* The inner loop: words.push(pair.dict.read_definition(index).unwrap()).
JsonWords(pair) ==
    SubSeq([i \in 1..Len(pair.index) |-> JsonDefinition(pair.dict, pair.index[i])],
           1, Len(pair.index))

\* HashMap::insert(key, value): the value replaces the one stored under key.
HashMap_insert(map, key, value) ==
    [k \in DOMAIN map \cup {key} |-> IF k = key THEN value ELSE map[k]]

\* indices_to_json from the i-th pair on, with output the map built so far:
\* the Definitions of the pair are inserted under the dictionary's bookname.
RECURSIVE indices_to_json_loop(_, _, _)
indices_to_json_loop(pairs, i, output) ==
    IF i > Len(pairs) THEN [tag |-> "ok", output |-> output]
    ELSE LET words == JsonWords(pairs[i])
             key == JsonShelf[pairs[i].dict].bookname
         IN  IF \E k \in 1..Len(words) : words[k].tag = "err"
             THEN [tag |-> "panic", output |-> <<>>]
             ELSE indices_to_json_loop(pairs, i + 1, HashMap_insert(output, key, words))

\* indices_to_json: the map that serde_json then prints, key by key.
indices_to_json(pairs) == indices_to_json_loop(pairs, 1, <<>>)

InitJson ==
    /\ IdleIndex /\ IdleMatch /\ IdleCache /\ IdleSearch /\ IdleRead /\ IdleLoad /\ IdlePaths
    /\ IdleServe
    /\ IdleReload
    /\ IdleRandom
    /\ json_pairs \in SeqsUpTo(JsonGroups, MaxGroups)
    /\ json_result = NoJson

IndicesToJson ==
    /\ json_result.tag = "none"
    /\ json_result' = indices_to_json(json_pairs)
    /\ UNCHANGED json_pairs
    /\ UNCHANGED <<idxVars, matchVars, cacheVars, searchVars, readVars, loadVars,
                   pathsVars, reloadVars, randVars, serveVars>>

NextJson == IndicesToJson

SpecJson == InitJson /\ [][NextJson]_vars

\* C26: when indices_to_json returns, for every group passed to it every
\* record of the group has its definition in the output, under the display
\* name of the group's dictionary.
C26_NoGroupLost ==
    json_result.tag = "ok" =>
        \A g \in 1..Len(json_pairs) :
            LET key == JsonShelf[json_pairs[g].dict].bookname
            IN  /\ key \in DOMAIN json_result.output
                /\ \A i \in 1..Len(json_pairs[g].index) :
                      \E k \in 1..Len(json_result.output[key]) :
                          json_result.output[key][k]
                              = JsonDefinition(json_pairs[g].dict, json_pairs[g].index[i])

\* ------------------------------------------------------------- server set-up
MaxServeGroups == 2
MaxGroupDicts == 2

\* The dictionaries load_dicts_from_paths_and_subpaths may return for a
\* group: three dictionaries, two of them with the same display name.
ServeShelf ==
    { [bookname |-> "fruit", ifo_path |-> 1],
      [bookname |-> "tens",  ifo_path |-> 2],
      [bookname |-> "fruit", ifo_path |-> 3] }

\* One iteration of `for d in 0..group_d.len()` (d counts from 0):
\* group_d[d].bookname is read for the key, group_d.remove(d) takes the
\* dictionary out and shifts the rest down, entry(..).or_insert keeps a
\* dictionary already stored under the name, and then group_d[d] is read
\* again for dict_keys.push; either indexing panics when d is not below the
\* current length.
serve_http_iteration(gd, i, all, keys) ==
    IF i + 1 > Len(gd)
    THEN [pc |-> "panic", group_d |-> gd, all_dicts |-> all, dict_keys |-> keys]
    ELSE LET key == gd[i + 1].bookname
             rest == RemoveAt(gd, i + 1)
             stored == IF key \in DOMAIN all THEN all
                       ELSE [k \in DOMAIN all \cup {key} |->
                                IF k = key THEN gd[i + 1] ELSE all[k]]
         IN  IF i + 1 > Len(rest)
             THEN [pc |-> "panic", group_d |-> rest, all_dicts |-> stored, dict_keys |-> keys]
             ELSE [pc |-> "loop", group_d |-> rest, all_dicts |-> stored,
                   dict_keys |-> Append(keys, rest[i + 1].bookname)]

InitServe ==
    /\ IdleIndex /\ IdleMatch /\ IdleCache /\ IdleSearch /\ IdleRead /\ IdleLoad /\ IdlePaths
    /\ IdleReload
    /\ IdleRandom
    /\ IdleJson
    /\ opt_groups \in SeqsUpTo(SeqsUpTo(ServeShelf, MaxGroupDicts), MaxServeGroups)
    /\ groups_done = 0
    /\ group_d = <<>> /\ range_end = 0 /\ d_idx = 0
    /\ dict_keys = <<>>
    /\ all_dicts = <<>>
    /\ groups = <<>>
    /\ serve_pc = "groups"

\* `for g in &opt.groups`: the next group's dictionaries are loaded and the
\* inner loop's range is fixed.
ServeGroupStart ==
    /\ serve_pc = "groups"
    /\ groups_done < Len(opt_groups)
    /\ group_d' = opt_groups[groups_done + 1]
    /\ range_end' = Len(opt_groups[groups_done + 1])
    /\ d_idx' = 0
    /\ dict_keys' = <<>>
    /\ serve_pc' = "loop"
    /\ UNCHANGED <<opt_groups, groups_done, all_dicts, groups>>
    /\ UNCHANGED <<idxVars, matchVars, cacheVars, searchVars, readVars, loadVars, pathsVars,
                   reloadVars, randVars, jsonVars>>

ServeDict ==
    /\ serve_pc = "loop"
    /\ d_idx < range_end
    /\ LET r == serve_http_iteration(group_d, d_idx, all_dicts, dict_keys)
       IN  /\ serve_pc' = r.pc
           /\ group_d' = r.group_d
           /\ all_dicts' = r.all_dicts
           /\ dict_keys' = r.dict_keys
    /\ d_idx' = d_idx + 1
    /\ UNCHANGED <<opt_groups, groups_done, range_end, groups>>
    /\ UNCHANGED <<idxVars, matchVars, cacheVars, searchVars, readVars, loadVars, pathsVars,
                   reloadVars, randVars, jsonVars>>

\* The inner loop is over: groups.insert(g.0.clone(), (dict_keys, ..)).
ServeGroupEnd ==
    /\ serve_pc = "loop"
    /\ d_idx = range_end
    /\ groups' = Append(groups, dict_keys)
    /\ groups_done' = groups_done + 1
    /\ serve_pc' = "groups"
    /\ UNCHANGED <<opt_groups, group_d, range_end, d_idx, dict_keys, all_dicts>>
    /\ UNCHANGED <<idxVars, matchVars, cacheVars, searchVars, readVars, loadVars, pathsVars,
                   reloadVars, randVars, jsonVars>>

\* Every group is set up: the request loop begins.
ServeSetupDone ==
    /\ serve_pc = "groups"
    /\ groups_done = Len(opt_groups)
    /\ serve_pc' = "serving"
    /\ UNCHANGED <<opt_groups, groups_done, group_d, range_end, d_idx, dict_keys, all_dicts,
                   groups>>
    /\ UNCHANGED <<idxVars, matchVars, cacheVars, searchVars, readVars, loadVars, pathsVars,
                   reloadVars, randVars, jsonVars>>

NextServe == ServeGroupStart \/ ServeDict \/ ServeGroupEnd \/ ServeSetupDone

SpecServe == InitServe /\ [][NextServe]_vars

\* The display names of the dictionaries loaded for the k-th group.
NamesOf(k) == SubSeq([i \in 1..Len(opt_groups[k]) |-> opt_groups[k][i].bookname],
                     1, Len(opt_groups[k]))

\* C27: the set-up never indexes out of bounds, and for every group whose
\* loop is over the key list holds exactly the display names of the group's
\* dictionaries, one per dictionary, each of them a key of all_dicts.
C27_GroupsRegistered ==
    /\ serve_pc # "panic"
    /\ \A k \in 1..groups_done :
          /\ groups[k] = NamesOf(k)
          /\ \A i \in 1..Len(opt_groups[k]) : opt_groups[k][i].bookname \in DOMAIN all_dicts

====
